---- MODULE Spec2Model ----
(***************************************************************************)
(* Model of the workspace edition of the WhatsApp scheduler bot            *)
(* (src/server.js, lines 598-1500): the workspace registry, the contact    *)
(* directory built from the Excel sheet, the slot registry, the broadcast  *)
(* and follow-up dispatchers and the inbound booking handler.              *)
(*                                                                         *)
(* Every handler is cut at its await points: one action per synchronous    *)
(* run of JavaScript between two awaits.                                   *)
(*                                                                         *)
(* Encodings.  A phone cell, a digit identifier and a WhatsApp address are *)
(* sequences of one-character strings.  The address 'whatsapp:+6591' is    *)
(* <<"+","6","5","9","1">>.  A sheet is the sequence of its data rows;     *)
(* data row i is Excel row i + 1 (row 1 is the header).  A blank cell of   *)
(* Booked Date, Booked Time or Last Notified is <<>>; a blank Status cell  *)
(* is "".  A slot id 'Sn' is the number n.  Times are minutes.             *)
(* deliveries and runs keep every request with what its handler saw when   *)
(* it arrived (history), beside the position of the handler.               *)
(* The fields status and lastNotified of a clientsByWa entry are written   *)
(* by the code and never read by it; the entries here do not carry them.   *)
(***************************************************************************)
EXTENDS Integers, Sequences, FiniteSets, TLC

VARIABLES
    workspaces,   \* the Map workspaces: id -> workspace object
    waToWs,       \* the Map waToWs: address -> workspace id
    epoch,        \* history: per created workspace, the number of set-availability calls
    uploads,      \* history: the number of upload-clients calls
    deliveries,   \* the inbound webhook deliveries, in arrival order, with their handlers
    runs,         \* the broadcast and follow-up requests, in arrival order, with their tasks
    call          \* a call of a function of the availability code: its arguments, then its result

vars == <<workspaces, waToWs, epoch, uploads, deliveries, runs, call>>

(***************************************************************************)
(* Bounds of the model                                                     *)
(***************************************************************************)
MaxInbound == 3
MaxRuns == 1
MaxSetAvail == 1
MaxUploads == 1
ManyRuns == 2
FewInbound == 1
MaxRows == 2
ManySetAvail == 2
ManyUploads == 2
ManyInbound == 2

(***************************************************************************)
(* Sequence helpers                                                        *)
(***************************************************************************)
Range(s) == {s[i] : i \in 1..Len(s)}

RECURSIVE SetToSortedSeq(_)
SetToSortedSeq(S) ==
    IF S = {} THEN <<>>
    ELSE LET m == CHOOSE x \in S : \A y \in S : x <= y
         IN <<m>> \o SetToSortedSeq(S \ {m})

StartsWith(s, p) == Len(p) <= Len(s) /\ SubSeq(s, 1, Len(p)) = p

EndsWith(s, p) == Len(p) <= Len(s) /\ SubSeq(s, Len(s) - Len(p) + 1, Len(s)) = p

(***************************************************************************)
(* Time and phone helpers                                                  *)
(***************************************************************************)
DigitChars == {"0", "1", "2", "3", "4", "5", "6", "7", "8", "9"}

phoneDigitsOnly(v) == SelectSeq(v, LAMBDA c : c \in DigitChars)

NoWa == <<>>

waFormat(numberRaw) ==
    LET digits == phoneDigitsOnly(numberRaw)
    IN IF digits = <<>> THEN NoWa
       ELSE IF StartsWith(digits, <<"6", "5">>)
            THEN <<"+">> \o digits
            ELSE <<"+", "6", "5">> \o digits

\* String(v).trim().toLowerCase() on the Status cells of the model
StatusNorm(v) ==
    CASE v = "Confirmed" -> "confirmed"
      [] v = "Pending" -> "pending"
      [] OTHER -> v

Blank == <<>>

Truthy(cell) == cell # Blank

\* a Date as minutes since 1 Jan 00:00, every month taken as 31 days long
DateOf(monIdx, day, hour, minute) == ((monIdx * 31 + (day - 1)) * 24 + hour) * 60 + minute

getMinutes(d) == d % 60

getHours(d) == (d \div 60) % 24

getDate(d) == ((d \div 1440) % 31) + 1

getMonth(d) == d \div (1440 * 31)

\* hm(date) of humanSlotLabel: the hour on the 12-hour clock, the minutes, the meridian
hm(date) ==
    LET h0 == getHours(date)
        h == IF h0 = 0 THEN 12 ELSE IF h0 > 12 THEN h0 - 12 ELSE h0
        mer == IF h0 >= 12 THEN "pm" ELSE "am"
    IN [h |-> h, mm |-> getMinutes(date), mer |-> mer]

\* the label as its parts; sMer is "" when the start's meridian is left out
humanSlotLabel(d1, d2) ==
    LET s == hm(d1)
        e == hm(d2)
    IN [day |-> getDate(d1), mon |-> getMonth(d1),
        sh |-> s.h, sm |-> s.mm, sMer |-> IF s.mer = e.mer THEN "" ELSE s.mer,
        eh |-> e.h, em |-> e.mm, eMer |-> e.mer]

(***************************************************************************)
(* Slot expander                                                           *)
(***************************************************************************)
SlotMins == 60

\* mutant: a slot is pushed whenever the cursor is before the end
RECURSIVE expandFrom_overrun(_, _, _, _)
expandFrom_overrun(cursor, end, slotMins, step) ==
    IF ~(cursor < end) THEN <<>>
    ELSE <<[start |-> cursor, end |-> cursor + slotMins]>>
         \o expandFrom_overrun(cursor + step, end, slotMins, step)

\* mutant: the loop breaks on a slot that ends at the end of the interval
RECURSIVE expandFrom_short(_, _, _, _)
expandFrom_short(cursor, end, slotMins, step) ==
    IF ~(cursor < end) THEN <<>>
    ELSE LET slotEnd == cursor + slotMins
         IN IF slotEnd >= end THEN <<>>
            ELSE <<[start |-> cursor, end |-> slotEnd]>>
                 \o expandFrom_short(cursor + step, end, slotMins, step)

RECURSIVE expandFrom(_, _, _, _)
expandFrom(cursor, end, slotMins, step) ==
    IF ~(cursor < end) THEN <<>>
    ELSE LET slotEnd == cursor + slotMins
         IN IF slotEnd > end THEN <<>>
            ELSE <<[start |-> cursor, end |-> slotEnd]>>
                 \o expandFrom(cursor + step, end, slotMins, step)

expandToBufferedSlots(start, end, slotMins, bufferMins) ==
    expandFrom(start, end, slotMins, slotMins + bufferMins)

(***************************************************************************)
(* Contact directory                                                       *)
(***************************************************************************)
\* mutant: the directory kept as a list, one entry per row
MapSet_append(m, entry) == Append(m, entry)

\* Map.set on an insertion-ordered Map: replace in place, else append
MapSet(m, entry) ==
    IF \E i \in 1..Len(m) : m[i].wa = entry.wa
    THEN [i \in 1..Len(m) |-> IF m[i].wa = entry.wa THEN entry ELSE m[i]]
    ELSE Append(m, entry)

MapHas(m, wa) == \E i \in 1..Len(m) : m[i].wa = wa

MapGet(m, wa) == m[CHOOSE i \in 1..Len(m) : m[i].wa = wa]

RECURSIVE clientsOfSheet(_, _)
clientsOfSheet(sheet, n) ==
    IF n = 0 THEN <<>>
    ELSE LET prev == clientsOfSheet(sheet, n - 1)
             wa == waFormat(sheet[n].phone)
         IN IF wa = NoWa THEN prev
            ELSE MapSet(prev, [wa |-> wa, name |-> sheet[n].name,
                               phone |-> sheet[n].phone, rowIndex |-> n])

EmptyAgg == [confirmed |-> FALSE, pending |-> FALSE, notified |-> FALSE, rowIndices |-> <<>>]

AggOfRows(sheet, rows) ==
    [confirmed |-> \E r \in rows : StatusNorm(sheet[r].status) = "confirmed",
     pending |-> \E r \in rows : StatusNorm(sheet[r].status) = "pending",
     notified |-> \E r \in rows : Truthy(sheet[r].lastNotified),
     rowIndices |-> SetToSortedSeq(rows)]

statusOfSheet(sheet) ==
    LET ids == {phoneDigitsOnly(sheet[r].phone) : r \in 1..Len(sheet)} \ {<<>>}
    IN [d \in ids |->
          AggOfRows(sheet, {r \in 1..Len(sheet) : phoneDigitsOnly(sheet[r].phone) = d})]

\* the row index found, 0 for null
findRowByPhone(sheet, phoneDigitsRaw) ==
    LET phoneDigits == phoneDigitsOnly(phoneDigitsRaw)
        hits == {r \in 1..Len(sheet) :
                   /\ phoneDigitsOnly(sheet[r].phone) # <<>>
                   /\ phoneDigits # <<>>
                   /\ EndsWith(phoneDigitsOnly(sheet[r].phone), phoneDigits)}
    IN IF hits = {} THEN 0 ELSE CHOOSE r \in hits : \A q \in hits : r <= q

\* the aggregate that refreshStatusForDigits stores under digits
refreshedAgg(sheet, digits) ==
    AggOfRows(sheet, {r \in 1..Len(sheet) :
                        /\ phoneDigitsOnly(sheet[r].phone) # <<>>
                        /\ digits # <<>>
                        /\ EndsWith(phoneDigitsOnly(sheet[r].phone), digits)})

FnSet(f, k, v) == [x \in DOMAIN f \cup {k} |-> IF x = k THEN v ELSE f[x]]

refreshStatusForDigits(ws, digits) ==
    [ws EXCEPT !.statusByDigits = FnSet(@, digits, refreshedAgg(ws.sheet, digits))]

\* ws.clientsByWa, ws.statusByDigits of buildClientMaps
buildClientMaps(ws) ==
    [ws EXCEPT !.clientsByWa = clientsOfSheet(ws.sheet, Len(ws.sheet)),
               !.statusByDigits = statusOfSheet(ws.sheet)]

\* the waToWs.set calls of buildClientMaps
routeClients(routing, ws, id) ==
    LET was == {ws.clientsByWa[i].wa : i \in 1..Len(ws.clientsByWa)}
    IN [a \in DOMAIN routing \cup was |-> IF a \in was THEN id ELSE routing[a]]

(***************************************************************************)
(* Slot listings                                                           *)
(***************************************************************************)
OpenSlots(ws) == SelectSeq(ws.availabilitySlots, LAMBDA s : ~s.booked)

\* the numbered lines as <<number, label>>; <<>> is '(All slots have been booked)'
\* mutant: the booked slots are listed too
listSlotsForMessage_all(ws) ==
    [i \in 1..Len(ws.availabilitySlots) |-> [n |-> i, label |-> ws.availabilitySlots[i].label]]

listSlotsForMessage(ws) ==
    LET open == OpenSlots(ws)
    IN [i \in 1..Len(open) |-> [n |-> i, label |-> open[i].label]]

SlotById(ws, slotId) ==
    LET hits == {i \in 1..Len(ws.availabilitySlots) : ws.availabilitySlots[i].id = slotId}
    IN IF hits = {} THEN 0 ELSE CHOOSE i \in hits : \A j \in hits : i <= j

\* mutant: the lines of the committed order are numbered afresh from 1
listSlotsStable_renumbered(ws) ==
    LET shown == SelectSeq(ws.lastBroadcastOrder,
                           LAMBDA x : SlotById(ws, x) # 0
                                      /\ ~ws.availabilitySlots[SlotById(ws, x)].booked)
    IN IF Len(ws.lastBroadcastOrder) = 0 THEN listSlotsForMessage(ws)
       ELSE [k \in 1..Len(shown) |->
               [n |-> k, label |-> ws.availabilitySlots[SlotById(ws, shown[k])].label]]

listSlotsStable(ws) ==
    IF Len(ws.lastBroadcastOrder) = 0 THEN listSlotsForMessage(ws)
    ELSE LET shown == {i \in 1..Len(ws.lastBroadcastOrder) :
                         /\ SlotById(ws, ws.lastBroadcastOrder[i]) # 0
                         /\ ~ws.availabilitySlots[SlotById(ws, ws.lastBroadcastOrder[i])].booked}
             idx == SetToSortedSeq(shown)
         IN [k \in 1..Len(idx) |->
               [n |-> idx[k],
                label |-> ws.availabilitySlots[SlotById(ws, ws.lastBroadcastOrder[idx[k]])].label]]

(***************************************************************************)
(* Availability                                                            *)
(***************************************************************************)
\* An availability line after the two regular expressions: matched is FALSE
\* when either fails; monIdx is months.indexOf(...), -1 when not a month;
\* sm and em are -1 when the minutes are absent; sMer and eMer are "" when
\* the meridian is absent.
to24(h, mer) ==
    IF mer = "" THEN h
    ELSE IF mer = "am" THEN (IF h = 12 THEN 0 ELSE h)
    ELSE (IF h = 12 THEN 12 ELSE h + 12)

NotParsed == [ok |-> FALSE, start |-> 0, end |-> 0]

parseAvailabilityLine(line) ==
    IF ~line.matched \/ line.monIdx < 0 THEN NotParsed
    ELSE LET sm == IF line.sm < 0 THEN 0 ELSE line.sm
             em == IF line.em < 0 THEN 0 ELSE line.em
             sMer == IF line.sMer = "" /\ line.eMer # "" THEN line.eMer ELSE line.sMer
             eMer == IF line.eMer = "" /\ sMer # "" THEN sMer ELSE line.eMer
             start == DateOf(line.monIdx, line.day, to24(line.sh, sMer), sm)
             end == DateOf(line.monIdx, line.day, to24(line.eh, eMer), em)
         IN [ok |-> TRUE, start |-> start,
             end |-> IF end <= start THEN end + 60 ELSE end]

\* bufferMinutes of the request body, a number or its decimal string, as the number
bufferOf(bufRaw) == IF bufRaw \in {0, 30, 60} THEN bufRaw ELSE 0

RECURSIVE slotsOfLines(_, _)
slotsOfLines(lines, buffer) ==
    IF lines = <<>> THEN <<>>
    ELSE LET parsed == parseAvailabilityLine(Head(lines))
             rest == slotsOfLines(Tail(lines), buffer)
         IN IF ~parsed.ok THEN rest
            ELSE expandToBufferedSlots(parsed.start, parsed.end, SlotMins, buffer) \o rest

\* mutant: the slots stay in the order of the lines
sortByStart_keeps(s) == s

\* Array.prototype.sort with (a,b) => a.start - b.start: stable insertion by start
RECURSIVE sortByStart(_)
sortByStart(s) ==
    IF s = <<>> THEN <<>>
    ELSE LET sorted == sortByStart(SubSeq(s, 1, Len(s) - 1))
             x == s[Len(s)]
             before == SelectSeq(sorted, LAMBDA y : y.start <= x.start)
             after == SelectSeq(sorted, LAMBDA y : y.start > x.start)
         IN before \o <<x>> \o after

NotBooked == <<>>

newSlots(lines, buffer) ==
    LET sorted == sortByStart(slotsOfLines(lines, buffer))
    IN [i \in 1..Len(sorted) |->
          [id |-> i, start |-> sorted[i].start, end |-> sorted[i].end,
           label |-> humanSlotLabel(sorted[i].start, sorted[i].end),
           booked |-> FALSE, bookedBy |-> NotBooked]]

(***************************************************************************)
(* State after construction: no workspace, no routing                      *)
(***************************************************************************)
EmptyFn == [x \in {} |-> 0]

NoCall == [pc |-> "none"]

Init ==
    /\ call = NoCall
    /\ workspaces = EmptyFn
    /\ waToWs = EmptyFn
    /\ epoch = EmptyFn
    /\ uploads = 0
    /\ deliveries = <<>>
    /\ runs = <<>>

(***************************************************************************)
(* POST /api/workspaces, POST /api/w/:ws/upload-clients                    *)
(***************************************************************************)
\* ids are Math.random strings; the model numbers the workspaces as created
CreateWorkspace(id, sheet) ==
    /\ id \notin DOMAIN epoch
    /\ LET ws == buildClientMaps([sheet |-> sheet, clientsByWa |-> <<>>,
                                  statusByDigits |-> EmptyFn, availabilitySlots |-> <<>>,
                                  lastBroadcastOrder |-> <<>>])
       IN /\ workspaces' = FnSet(workspaces, id, ws)
          /\ waToWs' = routeClients(waToWs, ws, id)
    /\ epoch' = FnSet(epoch, id, 0)
    /\ UNCHANGED <<uploads, deliveries, runs>>

UploadClients(id, sheet) ==
    /\ id \in DOMAIN workspaces
    /\ LET ws == buildClientMaps([workspaces[id] EXCEPT !.sheet = sheet])
       IN /\ workspaces' = [workspaces EXCEPT ![id] = ws]
          /\ waToWs' = routeClients(waToWs, ws, id)
    /\ uploads' = uploads + 1
    /\ UNCHANGED <<epoch, deliveries, runs>>

(***************************************************************************)
(* DELETE /api/workspaces/:id                                              *)
(***************************************************************************)
\* waToWs.delete(wa) for the keys of the workspace's clientsByWa, whatever
\* workspace they route to, then workspaces.delete(id)
DeleteWorkspace(id) ==
    /\ id \in DOMAIN workspaces
    /\ LET was == {workspaces[id].clientsByWa[i].wa : i \in 1..Len(workspaces[id].clientsByWa)}
       IN waToWs' = [a \in DOMAIN waToWs \ was |-> waToWs[a]]
    /\ workspaces' = [w \in DOMAIN workspaces \ {id} |-> workspaces[w]]
    /\ UNCHANGED <<epoch, uploads, deliveries, runs>>

(***************************************************************************)
(* POST /api/w/:ws/set-availability                                        *)
(***************************************************************************)
\* mutant: a new slot over a range that was booked stays booked
SetAvailability_keepsBooked(id, lines, bufRaw) ==
    /\ id \in DOMAIN workspaces
    /\ lines # <<>>
    /\ LET old == workspaces[id].availabilitySlots
           fresh == newSlots(lines, bufferOf(bufRaw))
           was(x) == {n \in 1..Len(old) : old[n].booked /\ old[n].start = x.start}
       IN workspaces' = [workspaces EXCEPT
                           ![id].availabilitySlots =
                               [i \in 1..Len(fresh) |->
                                  IF was(fresh[i]) = {} THEN fresh[i]
                                  ELSE [fresh[i] EXCEPT
                                          !.booked = TRUE,
                                          !.bookedBy = old[CHOOSE n \in was(fresh[i]) : TRUE].bookedBy]],
                           ![id].lastBroadcastOrder = <<>>]
    /\ epoch' = [epoch EXCEPT ![id] = @ + 1]
    /\ UNCHANGED <<waToWs, uploads, deliveries, runs>>

SetAvailability(id, lines, bufRaw) ==
    /\ id \in DOMAIN workspaces
    /\ lines # <<>>
    /\ workspaces' = [workspaces EXCEPT
                        ![id].availabilitySlots = newSlots(lines, bufferOf(bufRaw)),
                        ![id].lastBroadcastOrder = <<>>]
    /\ epoch' = [epoch EXCEPT ![id] = @ + 1]
    /\ UNCHANGED <<waToWs, uploads, deliveries, runs>>

(***************************************************************************)
(* POST /api/w/:ws/broadcast                                               *)
(***************************************************************************)
AggGet(ws, digits) ==
    IF digits \in DOMAIN ws.statusByDigits THEN ws.statusByDigits[digits] ELSE EmptyAgg

\* the eligibility loop over ws.clientsByWa.entries(), from entry i on
RECURSIVE toSendFrom(_, _, _, _)
toSendFrom(ws, force, i, usedDigits) ==
    IF i > Len(ws.clientsByWa) THEN <<>>
    ELSE LET client == ws.clientsByWa[i]
             digits == phoneDigitsOnly(client.phone)
             agg == AggGet(ws, digits)
         IN IF digits = <<>> \/ digits \in usedDigits
            THEN toSendFrom(ws, force, i + 1, usedDigits)
            ELSE IF ~force /\ (agg.pending \/ agg.confirmed)
            THEN toSendFrom(ws, force, i + 1, usedDigits \cup {digits})
            ELSE <<[wa |-> client.wa, digits |-> digits, name |-> client.name,
                    phone |-> client.phone, rowIndices |-> agg.rowIndices]>>
                 \o toSendFrom(ws, force, i + 1, usedDigits \cup {digits})

broadcastRecipients(ws, force) == toSendFrom(ws, force, 1, {})

\* mutant: the order is cut after its first slot
openOrder_first(ws) ==
    LET ids == [i \in 1..Len(OpenSlots(ws)) |-> OpenSlots(ws)[i].id]
    IN IF ids = <<>> THEN <<>> ELSE <<ids[1]>>

openOrder(ws) == [i \in 1..Len(OpenSlots(ws)) |-> OpenSlots(ws)[i].id]

NewRun(kind, id, force, ws, slotsText, toSend, pc) ==
    [kind |-> kind, ws |-> id, force |-> force, epoch |-> epoch[id], gen |-> uploads,
     orderBefore |-> ws.lastBroadcastOrder, slotsText |-> slotsText,
     toSend |-> toSend, task |-> [t \in 1..Len(toSend) |-> "sent"], kept |-> {}, pc |-> pc]

\* mutant: the slots are cleared before the request is turned down
SetAvailabilityRejected_clears(id) ==
    /\ id \in DOMAIN workspaces
    /\ workspaces' = [workspaces EXCEPT ![id].availabilitySlots = <<>>]
    /\ runs' = Append(runs, NewRun("availability", id, FALSE, workspaces[id], <<>>, <<>>, "rejected"))
    /\ UNCHANGED <<waToWs, epoch, uploads, deliveries>>

\* a set-availability request without availabilityText, turned down on
\* 'availabilityText is required'
SetAvailabilityRejected(id) ==
    /\ id \in DOMAIN workspaces
    /\ runs' = Append(runs, NewRun("availability", id, FALSE, workspaces[id], <<>>, <<>>, "rejected"))
    /\ UNCHANGED <<workspaces, waToWs, epoch, uploads, deliveries>>

\* a request turned down on 'Set availability first'
BroadcastRejected(id, force) ==
    /\ id \in DOMAIN workspaces
    /\ Len(workspaces[id].availabilitySlots) = 0
    /\ runs' = Append(runs, NewRun("broadcast", id, force, workspaces[id], <<>>, <<>>, "rejected"))
    /\ UNCHANGED <<workspaces, waToWs, epoch, uploads, deliveries>>

\* mutant: the order of every workspace is committed anew
Broadcast_everywhere(id, force) ==
    /\ id \in DOMAIN workspaces
    /\ Len(workspaces[id].availabilitySlots) # 0
    /\ LET ws == workspaces[id]
           toSend == broadcastRecipients(ws, force)
       IN /\ workspaces' = [w \in DOMAIN workspaces |->
                               [workspaces[w] EXCEPT !.lastBroadcastOrder = openOrder(workspaces[w])]]
          /\ runs' = Append(runs, NewRun("broadcast", id, force, ws, listSlotsForMessage(ws),
                                         toSend, IF toSend = <<>> THEN "done" ELSE "sending"))
    /\ UNCHANGED <<waToWs, epoch, uploads, deliveries>>

\* from the request to the first await: the order is frozen, the recipients are
\* chosen, and every task has called sendWa
Broadcast(id, force) ==
    /\ id \in DOMAIN workspaces
    /\ Len(workspaces[id].availabilitySlots) # 0
    /\ LET ws == workspaces[id]
           toSend == broadcastRecipients(ws, force)
       IN /\ workspaces' = [workspaces EXCEPT ![id].lastBroadcastOrder = openOrder(ws)]
          /\ runs' = Append(runs, NewRun("broadcast", id, force, ws, listSlotsForMessage(ws),
                                         toSend, IF toSend = <<>> THEN "done" ELSE "sending"))
    /\ UNCHANGED <<waToWs, epoch, uploads, deliveries>>

BlankRow == [name |-> "", phone |-> <<>>, bookedDate |-> Blank, bookedTime |-> Blank,
             status |-> "", lastNotified |-> Blank]

\* sheet.getRow(r) makes the row when the sheet is shorter
WithRow(sheet, r) ==
    IF r <= Len(sheet) THEN sheet
    ELSE sheet \o [i \in 1..(r - Len(sheet)) |-> BlankRow]

\* mutant: the status is set to Pending whatever it was
markNotified_always(row, whenSGT) ==
    [row EXCEPT !.lastNotified = whenSGT, !.status = "Pending"]

markNotified(row, whenSGT) ==
    [row EXCEPT !.lastNotified = whenSGT,
                !.status = IF StatusNorm(row.status) # "confirmed" THEN "Pending" ELSE @]

RECURSIVE markRows(_, _, _)
markRows(sheet, rowIndices, whenSGT) ==
    IF rowIndices = <<>> THEN sheet
    ELSE LET r == Head(rowIndices)
             sh == WithRow(sheet, r)
         IN markRows([sh EXCEPT ![r] = markNotified(sh[r], whenSGT)], Tail(rowIndices), whenSGT)

\* the part of a broadcast task after its send succeeded
broadcastMark(ws, t, whenSGT) ==
    LET agg == IF t.digits \in DOMAIN ws.statusByDigits THEN ws.statusByDigits[t.digits]
               ELSE [EmptyAgg EXCEPT !.rowIndices = t.rowIndices]
    IN [ws EXCEPT !.sheet = markRows(ws.sheet, t.rowIndices, whenSGT),
                  !.statusByDigits = FnSet(@, t.digits,
                                           [agg EXCEPT !.pending = TRUE, !.notified = TRUE])]

\* the part of a follow-up task after its send succeeded
followupMark(ws, t, whenSGT) ==
    LET r == findRowByPhone(ws.sheet, t.phone)
        marked == IF r = 0 THEN ws
                  ELSE [ws EXCEPT !.sheet[r] = markNotified(ws.sheet[r], whenSGT)]
    IN IF t.digits # <<>> THEN refreshStatusForDigits(marked, t.digits) ELSE marked

\* the rows a task marks after its send: the recipient's row indices in a
\* broadcast, the first row of the recipient's phone in a follow-up
rowsToMark(ws, kind, t) ==
    IF kind = "broadcast" THEN Range(t.rowIndices)
    ELSE {findRowByPhone(ws.sheet, t.phone)} \ {0}

\* history: the task finds one of its rows Confirmed when it marks them
findsConfirmed(ws, kind, t) ==
    \E r \in rowsToMark(ws, kind, t) :
        r <= Len(ws.sheet) /\ StatusNorm(ws.sheet[r].status) = "confirmed"

\* sgtStamp(): the run's own time stamp
sgtStamp(k) == <<k>>

AllOk(task) == \A t \in DOMAIN task : task[t] = "ok"

\* the send of task t of run k resolved: the task marks the rows; when it is
\* the last one, Promise.all resolves and saveExcel is called
TaskSendOk(k, t) ==
    /\ k \in 1..Len(runs)
    /\ runs[k].pc \in {"sending", "failed"}
    /\ t \in DOMAIN runs[k].task
    /\ runs[k].task[t] = "sent"
    /\ LET run == runs[k]
           task == [run.task EXCEPT ![t] = "ok"]
       IN /\ runs' = [runs EXCEPT
                         ![k].task = task,
                         ![k].kept = IF run.ws \in DOMAIN workspaces
                                        /\ findsConfirmed(workspaces[run.ws], run.kind, run.toSend[t])
                                     THEN @ \cup {t} ELSE @,
                         ![k].pc = IF AllOk(task) THEN "saving" ELSE @]
          /\ IF run.ws \in DOMAIN workspaces
             THEN workspaces' = [workspaces EXCEPT ![run.ws] =
                     IF run.kind = "broadcast"
                     THEN broadcastMark(@, run.toSend[t], sgtStamp(k))
                     ELSE followupMark(@, run.toSend[t], sgtStamp(k))]
             ELSE UNCHANGED workspaces
    /\ UNCHANGED <<waToWs, epoch, uploads, deliveries>>

\* the send of task t of run k was rejected: Promise.all rejects, the request
\* answers 500; the other tasks go on
TaskSendFails(k, t) ==
    /\ k \in 1..Len(runs)
    /\ runs[k].pc \in {"sending", "failed"}
    /\ t \in DOMAIN runs[k].task
    /\ runs[k].task[t] = "sent"
    /\ runs' = [runs EXCEPT ![k].task[t] = "fail", ![k].pc = "failed"]
    /\ UNCHANGED <<workspaces, waToWs, epoch, uploads, deliveries>>

\* saveExcel of run k settled
RunSaveDone(k, ok) ==
    /\ k \in 1..Len(runs)
    /\ runs[k].pc = "saving"
    /\ runs' = [runs EXCEPT ![k].pc = IF ok THEN "done" ELSE "failed"]
    /\ UNCHANGED <<workspaces, waToWs, epoch, uploads, deliveries>>

(***************************************************************************)
(* POST /api/w/:ws/followup-broadcast                                      *)
(***************************************************************************)
RECURSIVE followupFrom(_, _)
followupFrom(ws, i) ==
    IF i > Len(ws.clientsByWa) THEN <<>>
    ELSE LET client == ws.clientsByWa[i]
             r == findRowByPhone(ws.sheet, client.phone)
         IN IF r # 0 /\ StatusNorm(ws.sheet[r].status) = "pending"
            THEN <<[wa |-> client.wa, digits |-> phoneDigitsOnly(client.phone),
                    name |-> client.name, phone |-> client.phone, rowIndices |-> <<>>]>>
                 \o followupFrom(ws, i + 1)
            ELSE followupFrom(ws, i + 1)

followupRecipients(ws) == followupFrom(ws, 1)

\* template is the request's template with its blanks trimmed
FollowupBroadcast(id, template) ==
    /\ id \in DOMAIN workspaces
    /\ LET ws == workspaces[id]
           toSend == followupRecipients(ws)
       IN runs' = Append(runs,
             IF template = ""
             THEN NewRun("followup", id, FALSE, ws, <<>>, <<>>, "rejected")
             ELSE NewRun("followup", id, FALSE, ws, listSlotsStable(ws), toSend,
                         IF toSend = <<>> THEN "done" ELSE "sending"))
    /\ UNCHANGED <<workspaces, waToWs, epoch, uploads, deliveries>>

(***************************************************************************)
(* POST /whatsapp/inbound                                                  *)
(***************************************************************************)
\* A message body is the sequence of its words; a word is a run of letters
\* (w, lower-cased) or a run of digits (d).
Word(w) == [w |-> w, d |-> <<>>]

Num(d) == [w |-> "", d |-> d]

MenuWords == {"menu", "slots", "options", "list"}

\* /\b(menu|slots|options|list)\b/i.test(text)
isMenuCommand(text) == \E i \in 1..Len(text) : text[i].w \in MenuWords

DigitVal(c) ==
    CASE c = "0" -> 0 [] c = "1" -> 1 [] c = "2" -> 2 [] c = "3" -> 3 [] c = "4" -> 4
      [] c = "5" -> 5 [] c = "6" -> 6 [] c = "7" -> 7 [] c = "8" -> 8 [] c = "9" -> 9

RECURSIVE parseInt(_)
parseInt(d) == IF d = <<>> THEN 0 ELSE 10 * parseInt(SubSeq(d, 1, Len(d) - 1)) + DigitVal(d[Len(d)])

\* text.match(/\b(\d{1,3})\b/): the first run of one to three digits, -1 when none
firstNumber(text) ==
    LET hits == {i \in 1..Len(text) : Len(text[i].d) \in 1..3}
    IN IF hits = {} THEN -1
       ELSE parseInt(text[CHOOSE i \in hits : \A j \in hits : i <= j].d)

\* String(v).toLowerCase() on the Status cells of the model
StatusLower(v) ==
    CASE v = "Confirmed" -> "confirmed"
      [] v = "Pending" -> "pending"
      [] OTHER -> v

\* the workspace an address is routed to, 0 when none: waToWs first, then the
\* scan of the workspaces in insertion order
routeOf(from) ==
    IF from \in DOMAIN waToWs /\ waToWs[from] \in DOMAIN workspaces THEN waToWs[from]
    ELSE LET hits == {w \in DOMAIN workspaces : MapHas(workspaces[w].clientsByWa, from)}
         IN IF hits = {} THEN 0 ELSE CHOOSE w \in hits : \A v \in hits : w <= v

\* the already-confirmed check on the first row that matches the client's phone
alreadyConfirmed(ws, phone) ==
    LET r == findRowByPhone(ws.sheet, phone)
    IN /\ r # 0
       /\ StatusLower(ws.sheet[r].status) = "confirmed"
       /\ (Truthy(ws.sheet[r].bookedDate) \/ Truthy(ws.sheet[r].bookedTime))

\* mutant: the number always counted in the open slots of the moment
resolveSlot_openOnly(ws, n) ==
    IF n > Len(OpenSlots(ws)) THEN 0 ELSE SlotById(ws, OpenSlots(ws)[n].id)

\* mutant: no fallback to the open slots
resolveSlot_orderOnly(ws, n) ==
    IF Len(ws.lastBroadcastOrder) >= n THEN SlotById(ws, ws.lastBroadcastOrder[n]) ELSE 0

\* the index in availabilitySlots of the slot that number n resolves to,
\* 0 when the number is beyond the open slots
resolveSlot(ws, n) ==
    LET viaOrder == IF Len(ws.lastBroadcastOrder) >= n
                    THEN SlotById(ws, ws.lastBroadcastOrder[n]) ELSE 0
        openSlots == OpenSlots(ws)
    IN IF viaOrder # 0 THEN viaOrder
       ELSE IF n > Len(openSlots) THEN 0
       ELSE SlotById(ws, openSlots[n].id)

dateOnly(slot) == <<getDate(slot.start), getMonth(slot.start)>>

timeLabel(slot) == <<[humanSlotLabel(slot.start, slot.end) EXCEPT !.day = 0, !.mon = 0]>>

\* mutant: the booked slot is also taken out of the committed order
bookSlot_renumbers(ws, si, from, phone) ==
    LET slot == ws.availabilitySlots[si]
        r == findRowByPhone(ws.sheet, phone)
        booked == [ws EXCEPT !.availabilitySlots[si].booked = TRUE,
                             !.availabilitySlots[si].bookedBy = from,
                             !.lastBroadcastOrder = SelectSeq(@, LAMBDA x : x # slot.id)]
    IN IF r = 0 THEN booked
       ELSE [booked EXCEPT !.sheet[r].bookedDate = dateOnly(slot),
                           !.sheet[r].bookedTime = timeLabel(slot),
                           !.sheet[r].status = "Confirmed"]

\* 'Book it' and 'Update Excel'
bookSlot(ws, si, from, phone) ==
    LET slot == ws.availabilitySlots[si]
        r == findRowByPhone(ws.sheet, phone)
        booked == [ws EXCEPT !.availabilitySlots[si].booked = TRUE,
                             !.availabilitySlots[si].bookedBy = from]
    IN IF r = 0 THEN booked
       ELSE [booked EXCEPT !.sheet[r].bookedDate = dateOnly(slot),
                           !.sheet[r].bookedTime = timeLabel(slot),
                           !.sheet[r].status = "Confirmed"]

\* 'Sync in-memory aggregator' after saveExcel
syncAggregate(ws, phone) ==
    IF phoneDigitsOnly(phone) # <<>> THEN refreshStatusForDigits(ws, phoneDigitsOnly(phone))
    ELSE ws

\* mutant: the booked flag is not looked at
slotTaken_never(ws, si) == FALSE

\* 'if (!slot || slot.booked)' for a slot that was found
slotTaken(ws, si) == ws.availabilitySlots[si].booked

\* the handler from the routing to its first await: the workspace after it,
\* the message it sends (outcome), the slot resolved and where it waits
\* mutant: a menu keyword counts only in a text without a number
inboundStep_numberWins(ws, from, text) ==
    LET hasClient == MapHas(ws.clientsByWa, from)
        phone == IF hasClient THEN MapGet(ws.clientsByWa, from).phone ELSE <<>>
        n == firstNumber(text)
        si == resolveSlot(ws, n)
        stay(outcome, slot) ==
            [ws |-> ws, outcome |-> outcome, slot |-> slot, phone |-> phone, pc |-> "done"]
    IN IF isMenuCommand(text) /\ n < 1 THEN stay("menu", 0)
       ELSE IF n < 1 THEN stay("invalid", 0)
       ELSE IF hasClient /\ alreadyConfirmed(ws, phone) THEN stay("already", 0)
       ELSE IF si = 0 THEN stay("gone", 0)
       ELSE IF slotTaken(ws, si) THEN stay("taken", ws.availabilitySlots[si].id)
       ELSE LET booked == bookSlot(ws, si, from, phone)
            IN IF hasClient /\ findRowByPhone(ws.sheet, phone) # 0
               THEN [ws |-> booked, outcome |-> "booked",
                     slot |-> ws.availabilitySlots[si].id, phone |-> phone,
                     pc |-> "awaitSave"]
               ELSE [ws |-> IF hasClient THEN syncAggregate(booked, phone) ELSE booked,
                     outcome |-> "booked", slot |-> ws.availabilitySlots[si].id,
                     phone |-> phone, pc |-> "confirmed"]

inboundStep(ws, from, text) ==
    LET hasClient == MapHas(ws.clientsByWa, from)
        phone == IF hasClient THEN MapGet(ws.clientsByWa, from).phone ELSE <<>>
        n == firstNumber(text)
        si == resolveSlot(ws, n)
        stay(outcome, slot) ==
            [ws |-> ws, outcome |-> outcome, slot |-> slot, phone |-> phone, pc |-> "done"]
    IN IF isMenuCommand(text) THEN stay("menu", 0)
       ELSE IF n < 1 THEN stay("invalid", 0)
       ELSE IF hasClient /\ alreadyConfirmed(ws, phone) THEN stay("already", 0)
       ELSE IF si = 0 THEN stay("gone", 0)
       ELSE IF slotTaken(ws, si) THEN stay("taken", ws.availabilitySlots[si].id)
       ELSE LET booked == bookSlot(ws, si, from, phone)
            IN IF hasClient /\ findRowByPhone(ws.sheet, phone) # 0
               THEN [ws |-> booked, outcome |-> "booked",
                     slot |-> ws.availabilitySlots[si].id, phone |-> phone,
                     pc |-> "awaitSave"]
               ELSE [ws |-> IF hasClient THEN syncAggregate(booked, phone) ELSE booked,
                     outcome |-> "booked", slot |-> ws.availabilitySlots[si].id,
                     phone |-> phone, pc |-> "confirmed"]

\* mutant: the acknowledgement is sent when the handler has done its work,
\* and not at all to a sender it does not know
inboundEffects_ackLast(outcome, pc) ==
    CASE outcome = "dropped" -> <<>>
      [] outcome = "booked" /\ pc = "awaitSave" -> <<"book", "write", "ack", "save">>
      [] outcome = "booked" -> <<"book", "send", "ack">>
      [] OTHER -> <<"send", "ack">>

\* what the handler does up to its first await that is not a send, in the
\* order of the code: the acknowledgement res.status(200).send('OK'), then
\* the message it sends, or the booking, the row update and the call of saveExcel
inboundEffects(outcome, pc) ==
    CASE outcome = "dropped" -> <<"ack">>
      [] outcome = "booked" /\ pc = "awaitSave" -> <<"ack", "book", "write", "save">>
      [] outcome = "booked" -> <<"ack", "book", "send">>
      [] OTHER -> <<"ack", "send">>

BookedIds(ws) ==
    {ws.availabilitySlots[i].id : i \in {j \in 1..Len(ws.availabilitySlots) :
                                             ws.availabilitySlots[j].booked}}

\* a delivery from the webhook, up to the handler's first await
InboundReceive(from, text) ==
    /\ LET id == routeOf(from)
       IN IF from = NoWa \/ id = 0
          THEN /\ deliveries' = Append(deliveries,
                     [from |-> from, text |-> text, ws |-> 0, epoch |-> 0, gen |-> uploads,
                      order |-> <<>>, open |-> <<>>, bookedBefore |-> {}, bookedAfter |-> {},
                      hasClient |-> FALSE, aggConfirmed |-> FALSE, menu |-> <<>>,
                      outcome |-> "dropped", slot |-> 0, phone |-> <<>>, pc |-> "done",
                      effects |-> inboundEffects("dropped", "done")])
               /\ UNCHANGED <<workspaces, waToWs>>
          ELSE LET ws == workspaces[id]
                   res == inboundStep(ws, from, text)
               IN /\ deliveries' = Append(deliveries,
                        [from |-> from, text |-> text, ws |-> id, epoch |-> epoch[id],
                         gen |-> uploads, order |-> ws.lastBroadcastOrder,
                         open |-> openOrder(ws), bookedBefore |-> BookedIds(ws),
                         bookedAfter |-> BookedIds(res.ws),
                         hasClient |-> MapHas(ws.clientsByWa, from),
                         aggConfirmed |-> AggGet(ws, phoneDigitsOnly(res.phone)).confirmed,
                         menu |-> IF res.outcome = "menu" THEN listSlotsStable(ws) ELSE <<>>,
                         outcome |-> res.outcome, slot |-> res.slot, phone |-> res.phone,
                         pc |-> res.pc, effects |-> inboundEffects(res.outcome, res.pc)])
                  /\ workspaces' = [workspaces EXCEPT ![id] = res.ws]
                  /\ waToWs' = FnSet(waToWs, from, id)
    /\ UNCHANGED <<epoch, uploads, runs>>

\* mutant: a failed save takes the booking back
InboundSaveDone_rollback(i, ok) ==
    /\ i \in 1..Len(deliveries)
    /\ deliveries[i].pc = "awaitSave"
    /\ deliveries' = [deliveries EXCEPT
                         ![i].pc = IF ok THEN "confirmed" ELSE "failed",
                         ![i].effects = IF ok THEN Append(@, "send") ELSE @]
    /\ IF deliveries[i].ws \in DOMAIN workspaces
       THEN workspaces' = [workspaces EXCEPT ![deliveries[i].ws] =
                             IF ok THEN syncAggregate(@, deliveries[i].phone)
                             ELSE [@ EXCEPT !.availabilitySlots =
                                     [n \in DOMAIN @ |->
                                        IF @[n].id = deliveries[i].slot
                                        THEN [@[n] EXCEPT !.booked = FALSE, !.bookedBy = <<>>]
                                        ELSE @[n]]]]
       ELSE UNCHANGED workspaces
    /\ UNCHANGED <<waToWs, epoch, uploads, runs>>

\* saveExcel of the booking handler of delivery i settled: the aggregate is
\* refreshed and the confirmation sent, or the handler ends in its catch
InboundSaveDone(i, ok) ==
    /\ i \in 1..Len(deliveries)
    /\ deliveries[i].pc = "awaitSave"
    /\ deliveries' = [deliveries EXCEPT
                         ![i].pc = IF ok THEN "confirmed" ELSE "failed",
                         ![i].effects = IF ok THEN Append(@, "send") ELSE @]
    /\ IF ok /\ deliveries[i].ws \in DOMAIN workspaces
       THEN workspaces' = [workspaces EXCEPT ![deliveries[i].ws] =
                             syncAggregate(@, deliveries[i].phone)]
       ELSE UNCHANGED workspaces
    /\ UNCHANGED <<waToWs, epoch, uploads, runs>>

(***************************************************************************)
(* Inputs                                                                  *)
(***************************************************************************)
PhoneA == <<"9", "1">>

\* the same number written with the country code and a separator
PhoneAcc == <<"6", "5", "-", "9", "1">>

PhoneB == <<"9", "2">>

WaA == waFormat(PhoneA)

WaB == waFormat(PhoneB)

Row(name, phone, status, bookedDate, lastNotified) ==
    [name |-> name, phone |-> phone, bookedDate |-> bookedDate, bookedTime |-> Blank,
     status |-> status, lastNotified |-> lastNotified]

RowA == Row("a", PhoneA, "", Blank, Blank)

RowB == Row("b", PhoneB, "", Blank, Blank)

\* rows of an uploaded sheet: blank ones, one confirmed with its date, one
\* that carries a Last Notified stamp only
RowInputs ==
    { RowA, RowB,
      Row("A", PhoneA, "", Blank, Blank),
      Row("A", PhoneAcc, "", Blank, Blank),
      Row("A", PhoneAcc, "Confirmed", <<24, 7>>, Blank),
      Row("b", PhoneB, "", Blank, <<0>>) }

SheetInputs == UNION {[1..n -> RowInputs] : n \in 1..MaxRows}

\* the directories of the booking runs: two contacts; one contact on two rows
\* of which the second is confirmed
BookingSheets == { <<RowA, RowB>>, <<RowA, Row("A", PhoneA, "Confirmed", <<24, 7>>, Blank)>> }

Line(day, monIdx, sh, sMer, eh, eMer) ==
    [matched |-> TRUE, day |-> day, monIdx |-> monIdx, sh |-> sh, sm |-> -1, sMer |-> sMer,
     eh |-> eh, em |-> -1, eMer |-> eMer]

\* '25 Aug 1-3pm'
TwoSlots == <<Line(25, 7, 1, "", 3, "pm")>>

\* '26 Aug 9-10am' before '25 Aug 1-3pm'
Unsorted == <<Line(26, 7, 9, "", 10, "am"), Line(25, 7, 1, "", 3, "pm")>>

\* a line that is no time range, then '25 Aug 2-3pm' and '25 Aug 1-3pm', which overlap
Overlap == <<[Line(25, 7, 1, "", 3, "pm") EXCEPT !.matched = FALSE],
             Line(25, 7, 2, "", 3, "pm"), Line(25, 7, 1, "", 3, "pm")>>

One == <<Num(<<"1">>)>>

Two == <<Num(<<"2">>)>>

Menu == <<Word("menu")>>

Three == <<Num(<<"3">>)>>

\* 'hello', '0', '1234', 'menu 1', '1 list'
ReplyTexts == { <<Word("hello")>>, <<Num(<<"0">>)>>, <<Num(<<"1", "2", "3", "4">>)>>,
                <<Word("menu"), Num(<<"1">>)>>, <<Num(<<"1">>), Word("list")>>, One }

(***************************************************************************)
(* Specifications                                                          *)
(***************************************************************************)
\* the operations, with the inputs drawn from the given sets and the request
\* counts capped at the given bounds
Step(sheets, resheets, maxUploads, avails, maxSetAvail, forces, maxRuns, froms, texts, maxInbound) ==
    \/ \E sheet \in sheets : CreateWorkspace(1, sheet) /\ UNCHANGED call
    \/ \E sheet \in resheets : uploads < maxUploads /\ UploadClients(1, sheet) /\ UNCHANGED call
    \/ \E id \in DOMAIN workspaces, lines \in avails :
          epoch[id] < maxSetAvail /\ SetAvailability(id, lines, 0) /\ UNCHANGED call
    \/ \E id \in DOMAIN workspaces :
          Len(runs) < maxRuns /\ SetAvailabilityRejected(id) /\ UNCHANGED call
    \/ \E id \in DOMAIN workspaces, force \in forces :
          Len(runs) < maxRuns /\ BroadcastRejected(id, force) /\ UNCHANGED call
    \/ \E id \in DOMAIN workspaces, force \in forces :
          Len(runs) < maxRuns /\ Broadcast(id, force) /\ UNCHANGED call
    \/ \E id \in DOMAIN workspaces :
          Len(runs) < maxRuns /\ FollowupBroadcast(id, "t") /\ UNCHANGED call
    \/ \E k \in 1..Len(runs) : \E t \in DOMAIN runs[k].task : TaskSendOk(k, t) /\ UNCHANGED call
    \/ \E k \in 1..Len(runs) : \E t \in DOMAIN runs[k].task : TaskSendFails(k, t) /\ UNCHANGED call
    \/ \E k \in 1..Len(runs), ok \in BOOLEAN : RunSaveDone(k, ok) /\ UNCHANGED call
    \/ \E from \in froms, text \in texts :
          Len(deliveries) < maxInbound /\ InboundReceive(from, text) /\ UNCHANGED call
    \/ \E i \in 1..Len(deliveries), ok \in BOOLEAN : InboundSaveDone(i, ok) /\ UNCHANGED call

\* the booking engine: many replies, one broadcast
Next == Step(BookingSheets, {<<RowB>>}, MaxUploads, {TwoSlots}, MaxSetAvail, {FALSE},
             MaxRuns, {WaA, WaB}, {One, Two}, MaxInbound)

Spec == Init /\ [][Next]_vars

\* the dispatcher: several broadcasts, few replies
NextDispatch == Step({<<RowA, RowB>>}, {<<RowB>>}, MaxUploads, {TwoSlots}, MaxSetAvail, BOOLEAN,
                     ManyRuns, {WaA, WaB}, {One, Menu}, FewInbound)

SpecDispatch == Init /\ [][NextDispatch]_vars

\* the directory: every sheet of at most MaxRows rows
NextDirectory == Step(SheetInputs, {<<RowB>>}, MaxUploads, {TwoSlots}, MaxSetAvail, BOOLEAN,
                      MaxRuns, {WaA}, {One}, FewInbound)

SpecDirectory == Init /\ [][NextDirectory]_vars

\* the follow-up: contacts on one and on two rows, several runs, forced or not
NextFollowup == Step(BookingSheets, {<<RowB>>}, MaxUploads, {TwoSlots}, MaxSetAvail, BOOLEAN,
                     ManyRuns, {WaA}, {One}, FewInbound)

SpecFollowup == Init /\ [][NextFollowup]_vars

\* the menu: replies and menu commands of two contacts around one broadcast
NextMenu == Step({<<RowA, RowB>>}, {<<RowB>>}, MaxUploads, {TwoSlots}, MaxSetAvail, {FALSE},
                 MaxRuns, {WaA, WaB}, {One, Menu}, MaxInbound)

SpecMenu == Init /\ [][NextMenu]_vars

\* the availability: one contact, the slots set more than once
NextAvailability == Step({<<RowA>>}, {<<RowB>>}, MaxUploads, {TwoSlots, Unsorted, Overlap},
                         ManySetAvail, {FALSE}, MaxRuns, {WaA}, {One}, FewInbound)

SpecAvailability == Init /\ [][NextAvailability]_vars

\* the replies: well-formed and malformed texts of two contacts
NextReplies == Step({<<RowA, RowB>>}, {<<RowB>>}, MaxUploads, {TwoSlots}, MaxSetAvail, {FALSE},
                    MaxRuns, {WaA, WaB}, ReplyTexts, ManyInbound)

SpecReplies == Init /\ [][NextReplies]_vars

\* the numbers beyond the order: replies 1 and 3 to a list of two slots
NextBeyond == Step({<<RowA, RowB>>}, {<<RowB>>}, MaxUploads, {TwoSlots}, MaxSetAvail, {FALSE},
                   MaxRuns, {WaA, WaB}, {One, Three}, ManyInbound)

SpecBeyond == Init /\ [][NextBeyond]_vars

\* the tenants: a second workspace beside the first, with a contact of the first
NextTenants ==
    \/ Step({<<RowA, RowB>>}, {<<RowB>>}, MaxUploads, {TwoSlots}, MaxSetAvail, {FALSE},
            MaxRuns, {WaA, WaB}, {One}, FewInbound)
    \/ \E sheet \in {<<RowA>>} : CreateWorkspace(2, sheet) /\ UNCHANGED call
    \/ \E sheet \in {<<RowA, RowB>>} :
          uploads < MaxUploads /\ UploadClients(2, sheet) /\ UNCHANGED call

SpecTenants == Init /\ [][NextTenants]_vars

\* the life of a workspace: created, its sheet replaced, used, deleted
NextLifecycle ==
    \/ Step({<<RowA, RowB>>}, {<<RowB>>, <<RowA, RowB>>}, ManyUploads, {TwoSlots}, MaxSetAvail,
            {FALSE}, MaxRuns, {WaA, WaB}, {One}, FewInbound)
    \/ \E id \in DOMAIN workspaces : DeleteWorkspace(id) /\ UNCHANGED call

SpecLifecycle == Init /\ [][NextLifecycle]_vars

(***************************************************************************)
(* The availability functions called on their own                          *)
(***************************************************************************)
\* the slots the parsed line has pushed: start, end and label of each
slotsPushed(start, end, slotMins, bufferMins) ==
    LET hs == expandToBufferedSlots(start, end, slotMins, bufferMins)
    IN [i \in 1..Len(hs) |->
          [start |-> hs[i].start, end |-> hs[i].end,
           label |-> humanSlotLabel(hs[i].start, hs[i].end)]]

NoLine == [matched |-> FALSE]

\* hours of the 12-hour clock, with and without minutes and meridian
LineInputs ==
    {[matched |-> mt, day |-> 25, monIdx |-> mon, sh |-> sh, sm |-> sm, sMer |-> sMer,
      eh |-> eh, em |-> em, eMer |-> eMer] :
        mt \in BOOLEAN, mon \in {-1, 7}, sh \in {1, 5, 11, 12}, sm \in {-1, 30},
        sMer \in {"", "am", "pm"}, eh \in {1, 3, 5, 12}, em \in {-1, 30},
        eMer \in {"", "am", "pm"}}

\* intervals of every length around one and several durations, and none
LengthInputs == {-60, 0, 29, 30, 59, 60, 61, 90, 119, 120, 150, 180, 240, 300}

StartInputs == {DateOf(7, 25, 13, 0), DateOf(7, 25, 23, 30)}

DurationInputs == {30, 60}

BufferInputs == {0, 30, 60}

InitSlots ==
    /\ workspaces = EmptyFn
    /\ waToWs = EmptyFn
    /\ epoch = EmptyFn
    /\ uploads = 0
    /\ deliveries = <<>>
    /\ runs = <<>>
    /\ call \in {[pc |-> "line", line |-> line, ok |-> FALSE, start |-> 0, end |-> 0,
                   slotMins |-> SlotMins, bufferMins |-> b, out |-> <<>>] :
                     line \in LineInputs, b \in BufferInputs}
              \cup
              {[pc |-> "interval", line |-> NoLine, ok |-> TRUE, start |-> st, end |-> st + len,
                   slotMins |-> d, bufferMins |-> b, out |-> <<>>] :
                     st \in StartInputs, len \in LengthInputs, d \in DurationInputs,
                     b \in BufferInputs}

\* const parsed = parseAvailabilityLine(line); if (!parsed) continue
ParseCall ==
    /\ call.pc = "line"
    /\ LET parsed == parseAvailabilityLine(call.line)
       IN call' = [call EXCEPT !.ok = parsed.ok, !.start = parsed.start, !.end = parsed.end,
                               !.pc = IF parsed.ok THEN "interval" ELSE "skipped"]
    /\ UNCHANGED <<workspaces, waToWs, epoch, uploads, deliveries, runs>>

\* const slots = expandToBufferedSlots(parsed.start, parsed.end, 60, buffer), labelled
ExpandCall ==
    /\ call.pc = "interval"
    /\ call' = [call EXCEPT !.out = slotsPushed(call.start, call.end, call.slotMins, call.bufferMins),
                            !.pc = "done"]
    /\ UNCHANGED <<workspaces, waToWs, epoch, uploads, deliveries, runs>>

NextSlots == ParseCall \/ ExpandCall

SpecSlots == InitSlots /\ [][NextSlots]_vars

(***************************************************************************)
(* Claims                                                                  *)
(***************************************************************************)
Deliveries == 1..Len(deliveries)

NumOf(d) == firstNumber(d.text)

\* the deliveries whose handler resolved its number to the slot of delivery i
SameSlot(i) ==
    {j \in Deliveries : /\ deliveries[j].outcome \in {"booked", "taken"}
                        /\ deliveries[j].ws = deliveries[i].ws
                        /\ deliveries[j].epoch = deliveries[i].epoch
                        /\ deliveries[j].slot = deliveries[i].slot}

Winners(i) == {j \in SameSlot(i) : deliveries[j].outcome = "booked"}

\* C1: of the handlers whose replies resolve to the same slot exactly one books
\* it, and it is the first; every other one finds the slot booked, answers
\* 'just taken' and changes no slot, and the slot stays booked by the winner.
C1_OneWinner ==
    \A i \in Deliveries :
        deliveries[i].outcome \in {"booked", "taken"} =>
            /\ Cardinality(Winners(i)) = 1
            /\ \A w \in Winners(i) : \A j \in SameSlot(i) \ {w} :
                  /\ w < j
                  /\ deliveries[j].outcome = "taken"
                  /\ deliveries[j].slot \in deliveries[j].bookedBefore
                  /\ deliveries[j].bookedAfter = deliveries[j].bookedBefore
            /\ \A w \in Winners(i) :
                  (deliveries[i].ws \in DOMAIN workspaces
                     /\ epoch[deliveries[i].ws] = deliveries[i].epoch) =>
                  LET ws == workspaces[deliveries[i].ws]
                      si == SlotById(ws, deliveries[i].slot)
                  IN /\ si # 0
                     /\ ws.availabilitySlots[si].booked
                     /\ ws.availabilitySlots[si].bookedBy = deliveries[w].from

\* a reply reaches a slot whose winner is still waiting for saveExcel
C1_Witness ==
    \E i, j \in Deliveries :
        /\ j \in SameSlot(i)
        /\ deliveries[i].outcome = "booked"
        /\ deliveries[i].pc = "awaitSave"
        /\ deliveries[j].outcome = "taken"
        /\ deliveries[j].from # deliveries[i].from

\* two replies with the same number from two addresses, read against the same
\* committed order, the first of which finds the numbered slot open
RacePair(i, j) ==
    /\ i < j
    /\ deliveries[i].ws # 0
    /\ deliveries[i].ws = deliveries[j].ws
    /\ deliveries[i].epoch = deliveries[j].epoch
    /\ deliveries[i].order = deliveries[j].order
    /\ deliveries[i].from # deliveries[j].from
    /\ NumOf(deliveries[i]) = NumOf(deliveries[j])
    /\ NumOf(deliveries[i]) \in 1..Len(deliveries[i].order)
    /\ deliveries[i].outcome \notin {"menu", "invalid", "already"}
    /\ deliveries[j].outcome \notin {"menu", "invalid", "already"}
    /\ deliveries[i].order[NumOf(deliveries[i])] \notin deliveries[i].bookedBefore

\* C2: when two contacts answer the same number N of a committed order, the
\* first to arrive books order[N] and the open slots go down by one; the
\* second gets 'just taken' for that same slot and books nothing.
C2_SameNumberRace ==
    \A i, j \in Deliveries :
        RacePair(i, j) =>
            LET s == deliveries[i].order[NumOf(deliveries[i])]
            IN /\ deliveries[i].outcome = "booked"
               /\ deliveries[i].slot = s
               /\ deliveries[i].bookedAfter = deliveries[i].bookedBefore \cup {s}
               /\ deliveries[j].outcome = "taken"
               /\ deliveries[j].slot = s
               /\ deliveries[j].bookedAfter = deliveries[j].bookedBefore

C2_Witness == \E i, j \in Deliveries : RacePair(i, j) /\ deliveries[j].outcome = "taken"

\* C3: a numeric reply from a contact whose aggregate is Confirmed is turned
\* down by the already-confirmed check and books nothing.
C3_ConfirmedNeverBooks ==
    \A i \in Deliveries :
        (deliveries[i].aggConfirmed /\ deliveries[i].outcome \notin {"menu", "invalid"}) =>
            deliveries[i].outcome = "already"

\* C4: once a reply of an address has booked a slot, the same reply delivered
\* again (the directory not uploaded in between) is turned down by the
\* already-confirmed check and books nothing.
C4_ReplayRejected ==
    \A i, j \in Deliveries :
        (/\ i < j
         /\ deliveries[i].outcome = "booked"
         /\ deliveries[j].from = deliveries[i].from
         /\ deliveries[j].text = deliveries[i].text
         /\ deliveries[j].ws = deliveries[i].ws
         /\ deliveries[j].gen = deliveries[i].gen) =>
            /\ deliveries[j].outcome = "already"
            /\ deliveries[j].bookedAfter = deliveries[j].bookedBefore

Live == DOMAIN workspaces \cap DOMAIN workspaces'

\* this step is a broadcast request for workspace id that passed its preconditions
BroadcastCommits(id) ==
    /\ Len(runs') = Len(runs) + 1
    /\ runs'[Len(runs')].kind = "broadcast"
    /\ runs'[Len(runs')].ws = id
    /\ runs'[Len(runs')].pc # "rejected"

\* C5 as stated: a committed order changes at the next set-availability only.
C5_StableUntilReset ==
    [][\A id \in Live :
          (workspaces[id].lastBroadcastOrder # <<>> /\ epoch'[id] = epoch[id]) =>
              workspaces'[id].lastBroadcastOrder = workspaces[id].lastBroadcastOrder]_vars

\* C5: a committed order changes at the next set-availability or the next
\* accepted broadcast request only; every other step leaves it as it is, and
\* every number of it still resolves to the slot it was listed with.
C5_OrderStable ==
    [][\A id \in Live :
          (/\ workspaces[id].lastBroadcastOrder # <<>>
           /\ epoch'[id] = epoch[id]
           /\ ~BroadcastCommits(id)) =>
              /\ workspaces'[id].lastBroadcastOrder = workspaces[id].lastBroadcastOrder
              /\ \A n \in 1..Len(workspaces[id].lastBroadcastOrder) :
                    LET si == resolveSlot(workspaces'[id], n)
                    IN /\ si # 0
                       /\ si = resolveSlot(workspaces[id], n)
                       /\ workspaces'[id].availabilitySlots[si].id
                             = workspaces[id].lastBroadcastOrder[n]
                       /\ workspaces'[id].availabilitySlots[si].label
                             = workspaces[id].availabilitySlots[si].label]_vars

\* a slot of the committed order was booked after the broadcast, a menu was
\* re-sent, a follow-up ran and the directory was uploaded again
C5_Witness ==
    /\ 1 \in DOMAIN workspaces
    /\ workspaces[1].lastBroadcastOrder # <<>>
    /\ uploads > 0
    /\ \E i \in Deliveries :
          /\ deliveries[i].outcome \in {"booked", "menu"}
          /\ deliveries[i].order = workspaces[1].lastBroadcastOrder
    /\ \E k \in 1..Len(runs) : runs[k].kind = "followup" /\ runs[k].orderBefore # <<>>

\* C6: a broadcast request that sends to nobody leaves a committed order as it is.
C6_CommitOnlyWhenSent ==
    [][\A id \in Live :
          (/\ Len(runs') = Len(runs) + 1
           /\ runs'[Len(runs')].kind = "broadcast"
           /\ runs'[Len(runs')].ws = id
           /\ runs'[Len(runs')].toSend = <<>>
           /\ workspaces[id].lastBroadcastOrder # <<>>) =>
              workspaces'[id].lastBroadcastOrder = workspaces[id].lastBroadcastOrder]_vars

MarkedContacts(ws) ==
    {waFormat(ws.sheet[r].phone) : r \in {q \in 1..Len(ws.sheet) :
        \/ StatusNorm(ws.sheet[q].status) \in {"confirmed", "pending"}
        \/ Truthy(ws.sheet[q].lastNotified)}}

NonForcedBroadcast(id) == BroadcastCommits(id) /\ ~runs'[Len(runs')].force

\* C8: a non-forced broadcast sends to no contact that has a row marked
\* Confirmed, Pending or Last Notified.
C8_NonForcedSkipsMarked ==
    [][\A id \in Live :
          NonForcedBroadcast(id) =>
              \A t \in 1..Len(runs'[Len(runs')].toSend) :
                  runs'[Len(runs')].toSend[t].wa \notin MarkedContacts(workspaces[id])]_vars

\* C9: the recipients of one broadcast are pairwise different addresses and
\* pairwise different digit identifiers.
C9_OncePerContact ==
    \A k \in 1..Len(runs) :
        runs[k].kind = "broadcast" =>
            \A s, t \in 1..Len(runs[k].toSend) :
                s # t => /\ runs[k].toSend[s].wa # runs[k].toSend[t].wa
                         /\ runs[k].toSend[s].digits # runs[k].toSend[t].digits

\* a forced broadcast sent once to a contact that is on two rows under two spellings
C9_Witness ==
    /\ uploads = 0
    /\ \E k \in 1..Len(runs) :
          /\ runs[k].kind = "broadcast"
          /\ runs[k].force
          /\ Len(runs[k].toSend) = 1
          /\ runs[k].ws \in DOMAIN workspaces
          /\ \E q, r \in 1..Len(workspaces[runs[k].ws].sheet) :
                /\ q # r
                /\ workspaces[runs[k].ws].sheet[q].phone # workspaces[runs[k].ws].sheet[r].phone
                /\ waFormat(workspaces[runs[k].ws].sheet[q].phone) = runs[k].toSend[1].wa
                /\ waFormat(workspaces[runs[k].ws].sheet[r].phone) = runs[k].toSend[1].wa

\* C10: when a contact on two rows of the same number has booked and its
\* handler has ended (the directory not uploaded since), the aggregate of the
\* number is Confirmed and a non-forced broadcast does not send to the contact.
C10_ConfirmedExcluded ==
    [][\A id \in Live :
          NonForcedBroadcast(id) =>
              \A i \in Deliveries :
                  LET d == deliveries[i]
                      twins == {r \in 1..Len(workspaces[id].sheet) :
                                  phoneDigitsOnly(workspaces[id].sheet[r].phone)
                                     = phoneDigitsOnly(d.phone)}
                  IN (/\ d.ws = id
                      /\ d.outcome = "booked"
                      /\ d.pc \in {"confirmed", "failed"}
                      /\ d.hasClient
                      /\ d.gen = uploads
                      /\ Cardinality(twins) >= 2) =>
                         /\ AggGet(workspaces[id], phoneDigitsOnly(d.phone)).confirmed
                         /\ \A t \in 1..Len(runs'[Len(runs')].toSend) :
                               runs'[Len(runs')].toSend[t].wa # d.from]_vars

\* this step is the resolved send of task t of broadcast k
BroadcastSent(k, t) ==
    /\ Len(runs') = Len(runs)
    /\ runs[k].kind = "broadcast"
    /\ runs[k].task[t] = "sent"
    /\ runs'[k].task[t] = "ok"

\* the rows of the sheet that carry the digit identifier
RowsOf(sheet, digits) == {r \in 1..Len(sheet) : phoneDigitsOnly(sheet[r].phone) = digits}

\* the rows of the identifier carry the stamp of run k, those that were not
\* Confirmed are Pending, and the aggregate is pending and notified
MarkedBy(k, digits, before, after) ==
    /\ \A r \in RowsOf(after.sheet, digits) :
          /\ after.sheet[r].lastNotified = sgtStamp(k)
          /\ StatusNorm(after.sheet[r].status) \in {"pending", "confirmed"}
          /\ (r \in RowsOf(before.sheet, digits)
                /\ StatusNorm(before.sheet[r].status) # "confirmed")
             => after.sheet[r].status = "Pending"
    /\ AggGet(after, digits).pending
    /\ AggGet(after, digits).notified

\* the addresses the earlier broadcasts of workspace id have sent to, the
\* directory not uploaded since their request
SentContacts(id) ==
    UNION {{runs[k].toSend[t].wa : t \in {u \in DOMAIN runs[k].task : runs[k].task[u] = "ok"}} :
             k \in {j \in 1..Len(runs) : /\ runs[j].kind = "broadcast"
                                         /\ runs[j].ws = id
                                         /\ runs[j].gen = uploads}}

\* C11: when the send of a broadcast to a contact has resolved, every row of
\* the contact's identifier carries the run's stamp and is Pending unless
\* Confirmed, the aggregate is pending and notified, and a later non-forced
\* broadcast with no upload in between does not send to the contact.
C11_SentIsMarked ==
    [][/\ \A k \in 1..Len(runs) : \A t \in DOMAIN runs[k].task :
             BroadcastSent(k, t) =>
                 MarkedBy(k, runs[k].toSend[t].digits,
                          workspaces[runs[k].ws], workspaces'[runs[k].ws])
       /\ \A id \in Live :
             NonForcedBroadcast(id) =>
                 \A t \in 1..Len(runs'[Len(runs')].toSend) :
                     runs'[Len(runs')].toSend[t].wa \notin SentContacts(id)]_vars

\* C12: no step of a broadcast or of a follow-up changes the status of a row
\* that is Confirmed.
C12_ConfirmedStays ==
    [][runs' # runs =>
          \A id \in Live : \A r \in 1..Len(workspaces[id].sheet) :
              StatusNorm(workspaces[id].sheet[r].status) = "confirmed" =>
                  /\ r <= Len(workspaces'[id].sheet)
                  /\ workspaces'[id].sheet[r].status = workspaces[id].sheet[r].status]_vars

\* a contact booked after a non-forced broadcast had chosen it and before its
\* send resolved: the task found the row Confirmed and left it so
C12_Witness ==
    /\ uploads = 0
    /\ \E k \in 1..Len(runs) : \E t \in runs[k].kept : \E i \in Deliveries :
          /\ runs[k].kind = "broadcast"
          /\ ~runs[k].force
          /\ runs[k].orderBefore = <<>>
          /\ deliveries[i].outcome = "booked"
          /\ deliveries[i].from = runs[k].toSend[t].wa
          /\ deliveries[i].order # <<>>
          /\ \A j \in 1..Len(runs) : j < k => runs[j].pc = "rejected"
          /\ \A r \in Range(runs[k].toSend[t].rowIndices) :
                /\ workspaces[runs[k].ws].sheet[r].status = "Confirmed"
                /\ workspaces[runs[k].ws].sheet[r].lastNotified = sgtStamp(k)

\* this step is a follow-up request for workspace id that passed its precondition
FollowupAccepted(id) ==
    /\ Len(runs') = Len(runs) + 1
    /\ runs'[Len(runs')].kind = "followup"
    /\ runs'[Len(runs')].ws = id
    /\ runs'[Len(runs')].pc # "rejected"

\* C13: a follow-up sends to a contact only when the rows of its identifier,
\* as the sheet holds them at the request, make it Pending: one of them is
\* Pending and none is Confirmed.
C13_FollowupOnlyPending ==
    [][\A id \in Live :
          FollowupAccepted(id) =>
              \A t \in 1..Len(runs'[Len(runs')].toSend) :
                  LET rows == RowsOf(workspaces[id].sheet, runs'[Len(runs')].toSend[t].digits)
                  IN /\ \E r \in rows : StatusNorm(workspaces[id].sheet[r].status) = "pending"
                     /\ \A r \in rows : StatusNorm(workspaces[id].sheet[r].status) # "confirmed"]_vars

\* every line of the listing carries the number its slot has in the committed
\* order, the slot is open, and the number resolves to it; the lines are those
\* of all the open slots of the order
ListingFollowsOrder(ws, listing) ==
    /\ \A k \in 1..Len(listing) :
          LET n == listing[k].n
              si == resolveSlot(ws, n)
          IN /\ n \in 1..Len(ws.lastBroadcastOrder)
             /\ si # 0
             /\ ws.availabilitySlots[si].id = ws.lastBroadcastOrder[n]
             /\ ws.availabilitySlots[si].label = listing[k].label
             /\ ~ws.availabilitySlots[si].booked
    /\ {listing[k].n : k \in 1..Len(listing)}
          = {n \in 1..Len(ws.lastBroadcastOrder) :
                ws.lastBroadcastOrder[n] \notin BookedIds(ws)}

\* a menu listing sent by delivery i and a later reply j that read the same
\* order of the same slots
MenuThenReply(i, j) ==
    /\ i < j
    /\ deliveries[i].outcome = "menu"
    /\ deliveries[j].outcome \in {"gone", "taken", "booked"}
    /\ deliveries[j].ws = deliveries[i].ws
    /\ deliveries[j].epoch = deliveries[i].epoch
    /\ deliveries[j].order = deliveries[i].order
    /\ deliveries[i].ws \in DOMAIN workspaces
    /\ epoch[deliveries[i].ws] = deliveries[i].epoch

\* the reply of j to a number that the listing of i showed went to the slot shown
ResolvesAsListed(i, j) ==
    \A k \in 1..Len(deliveries[i].menu) :
        deliveries[i].menu[k].n = NumOf(deliveries[j]) =>
            LET ws == workspaces[deliveries[i].ws]
            IN /\ deliveries[j].outcome \in {"taken", "booked"}
               /\ ws.availabilitySlots[SlotById(ws, deliveries[j].slot)].label
                     = deliveries[i].menu[k].label

\* C14 as stated: a number a menu showed resolves, when replied, to the slot
\* shown next to it.
C14_ListedNumberResolves ==
    \A i, j \in Deliveries : MenuThenReply(i, j) => ResolvesAsListed(i, j)

\* C14: while a broadcast order is committed, the listing of a menu re-send or
\* of a follow-up shows the open slots of the order under their numbers in
\* the order, and a number a menu showed resolves to the slot shown next to it.
C14_StableListing ==
    /\ \A id \in DOMAIN workspaces :
          workspaces[id].lastBroadcastOrder # <<>> =>
              ListingFollowsOrder(workspaces[id], listSlotsStable(workspaces[id]))
    /\ \A i, j \in Deliveries :
          (MenuThenReply(i, j) /\ deliveries[i].order # <<>>) => ResolvesAsListed(i, j)

\* a menu listed the committed order, the slot numbered 1 was then booked by
\* another contact, and the reply 1 of the menu's reader still went to that slot
C14_Witness ==
    \E i, j \in Deliveries :
        /\ MenuThenReply(i, j)
        /\ deliveries[i].order # <<>>
        /\ deliveries[i].menu # <<>>
        /\ deliveries[j].from = deliveries[i].from
        /\ deliveries[j].outcome = "taken"
        /\ deliveries[j].slot \notin deliveries[i].bookedBefore
        /\ \E k \in 1..Len(deliveries[i].menu) : deliveries[i].menu[k].n = NumOf(deliveries[j])

\* the broadcasts and their tasks whose send was rejected
FailedSends ==
    {<<k, t>> \in (1..Len(runs)) \X (1..MaxRows) :
        /\ runs[k].kind = "broadcast"
        /\ t \in DOMAIN runs[k].task
        /\ runs[k].task[t] = "fail"}

\* no other request has sent to the address and the address has not booked
OnlyFailedFor(k, wa) ==
    /\ \A j \in 1..Len(runs) : \A u \in DOMAIN runs[j].task :
          (runs[j].toSend[u].wa = wa /\ runs[j].task[u] = "ok") => FALSE
    /\ \A i \in Deliveries : deliveries[i].from = wa => deliveries[i].outcome # "booked"

\* C15: when the send of a broadcast to a recipient was rejected, no row of the
\* recipient's identifier carries the stamp of that broadcast, and (the
\* broadcast not forced, the directory not uploaded since, nothing else sent
\* to the recipient and no booking by it) the recipient's aggregate is not
\* pending and a non-forced broadcast would send to it.
C15_FailedStaysUnmarked ==
    \A p \in FailedSends :
        LET k == p[1]
            rcp == runs[k].toSend[p[2]]
            ws == workspaces[runs[k].ws]
        IN /\ \A r \in RowsOf(ws.sheet, rcp.digits) : ws.sheet[r].lastNotified # sgtStamp(k)
           /\ (~runs[k].force /\ runs[k].gen = uploads /\ OnlyFailedFor(k, rcp.wa)) =>
                 /\ ~AggGet(ws, rcp.digits).pending
                 /\ \A r \in RowsOf(ws.sheet, rcp.digits) :
                       StatusNorm(ws.sheet[r].status) # "pending"
                 /\ \E u \in 1..Len(broadcastRecipients(ws, FALSE)) :
                       broadcastRecipients(ws, FALSE)[u].wa = rcp.wa

\* C16: a broadcast one of whose sends was rejected is not answered with a
\* failure, and once its sends have settled the sheet is saved (the request is
\* saving or has answered with its counts).
C16_FailureDoesNotAbort ==
    \A k \in 1..Len(runs) :
        (runs[k].kind = "broadcast" /\ \E t \in DOMAIN runs[k].task : runs[k].task[t] = "fail") =>
            /\ runs[k].pc # "failed"
            /\ (\A t \in DOMAIN runs[k].task : runs[k].task[t] # "sent") =>
                  runs[k].pc \in {"saving", "done"}

\* this step is a broadcast or a set-availability request for workspace id
\* that is turned down on its precondition
TurnedDown(id) ==
    /\ Len(runs') = Len(runs) + 1
    /\ runs'[Len(runs')].kind \in {"broadcast", "availability"}
    /\ runs'[Len(runs')].ws = id
    /\ runs'[Len(runs')].pc = "rejected"

\* C17: a broadcast turned down for want of slots and a set-availability
\* turned down for want of its text leave the workspace (slots, broadcast
\* order, aggregates, rows) and the routing as they were and send no message.
\* (A workspace exists only with its sheet loaded, so a broadcast is never
\* turned down for want of a directory.)
C17_RejectedChangesNothing ==
    [][\A id \in Live :
          TurnedDown(id) =>
              /\ workspaces' = workspaces
              /\ waToWs' = waToWs
              /\ epoch' = epoch
              /\ runs'[Len(runs')].toSend = <<>>
              /\ \A k \in 1..Len(runs) : runs'[k] = runs[k]]_vars

\* a broadcast was turned down before any slot was set, and a set-availability
\* was turned down when the workspace had slots
C17_Witness ==
    \E j, k \in 1..Len(runs) :
        /\ runs[j].kind = "broadcast" /\ runs[j].pc = "rejected"
        /\ runs[k].kind = "availability" /\ runs[k].pc = "rejected"
        /\ runs[k].epoch > 0
        /\ runs[k].ws \in DOMAIN workspaces
        /\ workspaces[runs[k].ws].availabilitySlots # <<>>

BookingStep(id, si) ==
    /\ Len(deliveries') = Len(deliveries) + 1
    /\ deliveries'[Len(deliveries')].ws = id
    /\ deliveries'[Len(deliveries')].outcome = "booked"
    /\ deliveries'[Len(deliveries')].slot = workspaces[id].availabilitySlots[si].id
    /\ workspaces'[id].availabilitySlots[si].bookedBy = deliveries'[Len(deliveries')].from

\* C19: in the slots of one set-availability, a booked slot stays booked by
\* the same address whatever the operation, and a slot becomes booked, or its
\* bookedBy changes, in the booking step of an inbound reply only.
C19_BookedOnce ==
    [][\A id \in Live :
          epoch'[id] = epoch[id] =>
              /\ Len(workspaces'[id].availabilitySlots) = Len(workspaces[id].availabilitySlots)
              /\ \A si \in 1..Len(workspaces[id].availabilitySlots) :
                    LET old == workspaces[id].availabilitySlots[si]
                        new == workspaces'[id].availabilitySlots[si]
                    IN /\ new.id = old.id
                       /\ old.booked => (new.booked /\ new.bookedBy = old.bookedBy)
                       /\ (new.booked # old.booked \/ new.bookedBy # old.bookedBy)
                             => (~old.booked /\ new.booked /\ BookingStep(id, si))]_vars

\* a slot was booked, its save failed, the directory was then uploaded and a
\* broadcast listed the slots without it: the slot is still booked by its contact
C19_Witness ==
    \E i \in Deliveries : \E k \in 1..Len(runs) :
        /\ deliveries[i].outcome = "booked"
        /\ deliveries[i].pc = "failed"
        /\ deliveries[i].gen = 0
        /\ uploads > 0
        /\ runs[k].kind = "broadcast"
        /\ runs[k].gen > 0
        /\ runs[k].pc # "rejected"
        /\ Len(runs[k].slotsText) < Len(workspaces[runs[k].ws].availabilitySlots)
        /\ LET ws == workspaces[deliveries[i].ws]
           IN /\ epoch[deliveries[i].ws] = deliveries[i].epoch
              /\ ws.availabilitySlots[SlotById(ws, deliveries[i].slot)].booked
              /\ ws.availabilitySlots[SlotById(ws, deliveries[i].slot)].bookedBy
                    = deliveries[i].from

\* this step is a set-availability of workspace id that was carried out
AvailabilitySet(id) == epoch'[id] = epoch[id] + 1

\* the slots follow one another by start time and the i-th carries the id Si
SortedAndNumbered(slots) ==
    /\ \A i, j \in 1..Len(slots) : i < j => slots[i].start <= slots[j].start
    /\ \A i \in 1..Len(slots) : slots[i].id = i
    /\ \A i, j \in 1..Len(slots) : slots[i].id = slots[j].id => i = j

\* a broadcast request for the slots of workspace id as they are now was accepted
CommittedSinceReset(id) ==
    \E k \in 1..Len(runs) : /\ runs[k].kind = "broadcast"
                            /\ runs[k].ws = id
                            /\ runs[k].pc # "rejected"
                            /\ runs[k].epoch = epoch[id]

\* C20: a set-availability that is carried out leaves the slots of the workspace
\* ordered by start time and numbered S1..Sn in that order, no id twice, and the
\* committed broadcast order empty; an order is committed only by a broadcast
\* of the slots in force, and a reply reads an order only of the slots in force
\* when it arrived.
C20_ResetSortsAndInvalidates ==
    [][/\ \A id \in Live :
             AvailabilitySet(id) =>
                 /\ SortedAndNumbered(workspaces'[id].availabilitySlots)
                 /\ workspaces'[id].lastBroadcastOrder = <<>>
       /\ \A id \in DOMAIN workspaces' :
             workspaces'[id].lastBroadcastOrder # <<>> => CommittedSinceReset(id)'
       /\ \A i \in 1..Len(deliveries') :
             deliveries'[i].order # <<>> =>
                 \E k \in 1..Len(runs') : /\ runs'[k].kind = "broadcast"
                                          /\ runs'[k].ws = deliveries'[i].ws
                                          /\ runs'[k].pc # "rejected"
                                          /\ runs'[k].epoch = deliveries'[i].epoch]_vars

\* the slots were set a second time, from lines that were not in order of start,
\* after a broadcast had committed an order of the first slots; the order is
\* empty, and a reply that came afterwards was booked without it
C20_Witness ==
    \E id \in DOMAIN workspaces :
        /\ epoch[id] = 2
        /\ Len(workspaces[id].availabilitySlots) >= 2
        /\ workspaces[id].availabilitySlots # newSlots(TwoSlots, 0)
        /\ workspaces[id].lastBroadcastOrder = <<>>
        /\ \E k \in 1..Len(runs) : /\ runs[k].kind = "broadcast"
                                   /\ runs[k].ws = id
                                   /\ runs[k].pc # "rejected"
                                   /\ runs[k].epoch = 1
                                   /\ runs[k].slotsText # <<>>
        /\ \E i \in Deliveries : /\ deliveries[i].ws = id
                                 /\ deliveries[i].epoch = 2
                                 /\ deliveries[i].order = <<>>
                                 /\ deliveries[i].outcome = "booked"

\* the expander has returned
Expanded == call.pc = "done"

\* C21: the slots the expander emits are each one duration long, none ends
\* after the interval, consecutive starts lie duration + gap apart (so no two
\* overlap), the first starts at the interval start, and an interval shorter
\* than one duration gives none.
C21_ExpanderShape ==
    Expanded =>
        LET out == call.out
            d == call.slotMins
            g == call.bufferMins
        IN /\ \A i \in 1..Len(out) : /\ out[i].end - out[i].start = d
                                     /\ out[i].end <= call.end
           /\ \A i \in 1..(Len(out) - 1) : /\ out[i + 1].start - out[i].start = d + g
                                           /\ out[i].end <= out[i + 1].start
           /\ out # <<>> => out[1].start = call.start
           /\ call.end - call.start < d => out = <<>>

\* an interval with room for several slots a gap apart and a remainder at its end
C21_Witness ==
    /\ Expanded
    /\ Len(call.out) >= 2
    /\ call.bufferMins > 0
    /\ call.out[Len(call.out)].end < call.end

\* '25 Aug 1-5pm'
OneToFive == [matched |-> TRUE, day |-> 25, monIdx |-> 7, sh |-> 1, sm |-> -1, sMer |-> "",
              eh |-> 5, em |-> -1, eMer |-> "pm"]

\* the label 'day mon sh-eh mer' of a whole-hour slot within one meridian
HourLabel(day, mon, sh, eh, mer) ==
    [day |-> day, mon |-> mon, sh |-> sh, sm |-> 0, sMer |-> "", eh |-> eh, em |-> 0, eMer |-> mer]

\* C22: for an interval of length L >= duration the expander emits
\* floor((L - duration) / (duration + gap)) + 1 slots; k whole hours with no
\* gap give k one-hour slots, and '25 Aug 1-5pm' gives 1-2pm, 2-3pm, 3-4pm, 4-5pm.
C22_ExpanderMaximal ==
    Expanded =>
        LET len == call.end - call.start
            d == call.slotMins
            g == call.bufferMins
        IN /\ len >= d => Len(call.out) = ((len - d) \div (d + g)) + 1
           /\ (len >= d /\ d = 60 /\ g = 0 /\ len % 60 = 0) => Len(call.out) = len \div 60
           /\ (call.line = OneToFive /\ g = 0) =>
                 [i \in 1..Len(call.out) |-> call.out[i].label]
                    = <<HourLabel(25, 7, 1, 2, "pm"), HourLabel(25, 7, 2, 3, "pm"),
                        HourLabel(25, 7, 3, 4, "pm"), HourLabel(25, 7, 4, 5, "pm")>>

\* '25 Aug 1-5pm' was parsed and expanded without a gap into its four slots
C22_Witness ==
    /\ Expanded
    /\ call.line = OneToFive
    /\ call.bufferMins = 0
    /\ Len(call.out) = 4

\* the parser has accepted the line of the call
Parsed == call.pc \in {"interval", "done"} /\ call.line # NoLine

\* C23: for every line the parser accepts, the end it returns is later than
\* the start it returns.
C23_EndAfterStart == Parsed => call.end > call.start

\* the workspaces that were created and are no longer in the registry
Deleted == DOMAIN epoch \ DOMAIN workspaces

\* C24: a deleted workspace is absent from the registry and no address of the
\* routing index routes to it, whatever uploads and replies came before.
C24_DeletedUnrouted ==
    \A id \in Deleted : \A wa \in DOMAIN waToWs : waToWs[wa] # id

\* the addresses and the identifiers of the rows of a sheet
AddressesOf(sheet) == {waFormat(sheet[r].phone) : r \in 1..Len(sheet)} \ {NoWa}

IdentifiersOf(sheet) == {phoneDigitsOnly(sheet[r].phone) : r \in 1..Len(sheet)} \ {<<>>}

\* the addresses the routing index routes to workspace id
RoutedTo(routing, id) == {a \in DOMAIN routing : routing[a] = id}

\* C25: after an upload to a workspace its address map, its aggregate map and
\* the addresses routed to it are those of the rows of the new sheet and no
\* others.
C25_UploadReplaces ==
    [][\A id \in Live :
          uploads' = uploads + 1 =>
              LET ws == workspaces'[id]
              IN /\ {ws.clientsByWa[i].wa : i \in 1..Len(ws.clientsByWa)} = AddressesOf(ws.sheet)
                 /\ DOMAIN ws.statusByDigits = IdentifiersOf(ws.sheet)
                 /\ RoutedTo(waToWs', id) = AddressesOf(ws.sheet)]_vars

\* the slot that delivery i booked is, among the slots it was booked from,
\* booked by the sender of i
StillBookedBy(i, wss) ==
    LET d == deliveries[i]
    IN (d.ws \in DOMAIN wss /\ epoch[d.ws] = d.epoch) =>
           \E n \in 1..Len(wss[d.ws].availabilitySlots) :
               /\ wss[d.ws].availabilitySlots[n].id = d.slot
               /\ wss[d.ws].availabilitySlots[n].booked
               /\ wss[d.ws].availabilitySlots[n].bookedBy = d.from

\* the saveExcel of the booking handler of delivery i fails in this step
SaveFails(i) == deliveries[i].pc = "awaitSave" /\ deliveries'[i].pc = "failed"

\* C26: when saveExcel fails after a booking, the slot stays booked by the
\* contact, then and for as long as the slots are not set anew; the failure
\* ends in the handler, which had acknowledged the delivery: the step changes
\* nothing but the handler's position and no other request is disturbed.
C26_NoRollback ==
    [][/\ \A i \in Deliveries :
             SaveFails(i) =>
                 /\ StillBookedBy(i, workspaces) /\ StillBookedBy(i, workspaces')
                 /\ workspaces' = workspaces /\ waToWs' = waToWs /\ runs' = runs
                 /\ Head(deliveries[i].effects) = "ack"
                 /\ deliveries' = [deliveries EXCEPT ![i].pc = "failed"]
       /\ \A i \in Deliveries :
             (deliveries[i].pc = "failed" /\ epoch' = epoch) =>
                 /\ deliveries'[i] = deliveries[i]
                 /\ StillBookedBy(i, workspaces')]_vars

\* the save of a booking failed, and afterwards another reply to the same
\* number found the slot taken
C26_Witness ==
    \E i, j \in Deliveries :
        /\ i < j
        /\ deliveries[i].pc = "failed"
        /\ deliveries[i].outcome = "booked"
        /\ deliveries[j].ws = deliveries[i].ws
        /\ deliveries[j].epoch = deliveries[i].epoch
        /\ deliveries[j].outcome = "taken"
        /\ deliveries[j].slot = deliveries[i].slot

\* a row of the sender of delivery d is Confirmed with the date and the time of
\* the slot that d booked
RowConfirmed(ws, d) ==
    \E r \in 1..Len(ws.sheet) : \E n \in 1..Len(ws.availabilitySlots) :
        /\ waFormat(ws.sheet[r].phone) = d.from
        /\ ws.availabilitySlots[n].id = d.slot
        /\ ws.sheet[r].status = "Confirmed"
        /\ ws.sheet[r].bookedDate = dateOnly(ws.availabilitySlots[n])
        /\ ws.sheet[r].bookedTime = timeLabel(ws.availabilitySlots[n])

Sends(d) == Cardinality({k \in 1..Len(d.effects) : d.effects[k] = "send"})

\* C27: the handler that books a slot for a contact marks a row of the contact
\* Confirmed with the date and time of the slot as it books, and when it ends
\* it has sent one confirmation and no more.
C27_BookingConfirmed ==
    [][\A i \in 1..Len(deliveries') :
          LET d == deliveries'[i]
          IN (d.outcome = "booked" /\ d.ws \in DOMAIN workspaces') =>
                 /\ i > Len(deliveries) => RowConfirmed(workspaces'[d.ws], d)
                 /\ (i > Len(deliveries) \/ deliveries[i].pc # d.pc) =>
                        (d.pc # "awaitSave" => (d.pc = "confirmed" /\ Sends(d) = 1))]_vars

\* this step is the arrival of a delivery
Arrives == Len(deliveries') = Len(deliveries) + 1

\* the handler answers with one message and changes no workspace
OnlyAnswers(d) ==
    /\ d.effects = <<"ack", "send">>
    /\ d.pc = "done"
    /\ workspaces' = workspaces

\* C28: a reply of a known contact without a number of one to three digits,
\* or with the number 0, gets the retry prompt and changes no slot, order,
\* aggregate or row; a reply with a menu keyword gets the slot listing and
\* changes nothing either, whatever number it carries.
C28_MalformedOnlyPrompts ==
    [][Arrives =>
          LET d == deliveries'[Len(deliveries')]
          IN /\ (d.hasClient /\ ~isMenuCommand(d.text) /\ firstNumber(d.text) < 1) =>
                    (d.outcome = "invalid" /\ OnlyAnswers(d))
             /\ (d.ws # 0 /\ isMenuCommand(d.text)) =>
                    /\ d.outcome = "menu"
                    /\ d.menu = listSlotsStable(workspaces[d.ws])
                    /\ OnlyAnswers(d)]_vars

\* with slot 1 open, a contact sent 'menu 1' and was shown the slots, and a
\* contact sent '0' and was asked again; slot 1 is still open
C28_Witness ==
    \E i, j \in Deliveries :
        /\ deliveries[i].text = <<Word("menu"), Num(<<"1">>)>>
        /\ deliveries[i].outcome = "menu"
        /\ deliveries[i].menu # <<>>
        /\ deliveries[i].hasClient
        /\ deliveries[j].text = <<Num(<<"0">>)>>
        /\ deliveries[j].outcome = "invalid"
        /\ deliveries[j].hasClient
        /\ deliveries[j].ws \in DOMAIN workspaces
        /\ BookedIds(workspaces[deliveries[j].ws]) = {}

\* C29: for the sheet of every workspace and every identifier of its
\* directory, the aggregate that the directory build computes is the
\* aggregate that refreshStatusForDigits computes.
C29_AggregatesAgree ==
    \A id \in DOMAIN workspaces :
        LET sheet == workspaces[id].sheet
            built == buildClientMaps(workspaces[id]).statusByDigits
        IN \A digits \in DOMAIN built :
               refreshStatusForDigits(workspaces[id], digits).statusByDigits[digits] = built[digits]

\* C30: a slot is booked only by a reply from an address that is a key of the
\* address map of the workspace at that moment: whoever booked had a
\* directory entry, and every booked slot is booked by such a sender.
C30_OnlyContactsBook ==
    /\ \A i \in Deliveries : deliveries[i].outcome = "booked" => deliveries[i].hasClient
    /\ \A id \in DOMAIN workspaces : \A n \in 1..Len(workspaces[id].availabilitySlots) :
          workspaces[id].availabilitySlots[n].booked =>
              \E i \in Deliveries : /\ deliveries[i].ws = id
                                    /\ deliveries[i].outcome = "booked"
                                    /\ deliveries[i].from = workspaces[id].availabilitySlots[n].bookedBy
                                    /\ deliveries[i].hasClient

\* the slots of the workspace that are booked by the address
BookedBy(ws, wa) ==
    {n \in 1..Len(ws.availabilitySlots) :
        ws.availabilitySlots[n].booked /\ ws.availabilitySlots[n].bookedBy = wa}

\* C31: in every state, an address is the bookedBy of at most one slot of a
\* workspace.
C31_OneSlotPerAddress ==
    \A id \in DOMAIN workspaces :
        \A n \in 1..Len(workspaces[id].availabilitySlots) :
            workspaces[id].availabilitySlots[n].booked =>
                Cardinality(BookedBy(workspaces[id], workspaces[id].availabilitySlots[n].bookedBy)) <= 1

\* no booking handler is between its row update and the end of saveExcel
NoneMidFlight == \A i \in Deliveries : deliveries[i].pc # "awaitSave"

\* a row of the address is Confirmed, and the aggregate of the identifier of
\* the address's directory entry is confirmed
ConfirmedInStore(ws, wa) ==
    /\ \E r \in 1..Len(ws.sheet) :
          waFormat(ws.sheet[r].phone) = wa /\ StatusNorm(ws.sheet[r].status) = "confirmed"
    /\ MapHas(ws.clientsByWa, wa)
    /\ AggGet(ws, phoneDigitsOnly(MapGet(ws.clientsByWa, wa).phone)).confirmed

\* C32: when no inbound handler is mid-flight, the contact of every booked
\* slot has a row with status Confirmed and an aggregate with confirmed set.
C32_RegistryMatchesStore ==
    NoneMidFlight =>
        \A id \in DOMAIN workspaces :
            \A n \in 1..Len(workspaces[id].availabilitySlots) :
                workspaces[id].availabilitySlots[n].booked =>
                    ConfirmedInStore(workspaces[id], workspaces[id].availabilitySlots[n].bookedBy)

\* C33: a set-availability that is carried out leaves every slot of the
\* registry open and without bookedBy, the ranges that were booked before it
\* included, and leaves the rows, the directory and the aggregates as they were.
C33_ResetReopensAll ==
    [][\A id \in Live :
          AvailabilitySet(id) =>
              /\ \A n \in 1..Len(workspaces'[id].availabilitySlots) :
                    /\ ~workspaces'[id].availabilitySlots[n].booked
                    /\ workspaces'[id].availabilitySlots[n].bookedBy = NotBooked
              /\ workspaces'[id].sheet = workspaces[id].sheet
              /\ workspaces'[id].clientsByWa = workspaces[id].clientsByWa
              /\ workspaces'[id].statusByDigits = workspaces[id].statusByDigits]_vars

\* a contact booked 1-2pm of '25 Aug 1-3pm' and was confirmed; the same
\* availability was then set again: 1-2pm is open and the row is still Confirmed
C33_Witness ==
    \E id \in DOMAIN workspaces : \E i \in Deliveries :
        /\ epoch[id] = 2
        /\ deliveries[i].ws = id
        /\ deliveries[i].epoch = 1
        /\ deliveries[i].outcome = "booked"
        /\ deliveries[i].pc = "confirmed"
        /\ deliveries[i].open = <<1, 2>>
        /\ deliveries[i].slot = 1
        /\ workspaces[id].availabilitySlots = newSlots(TwoSlots, 0)
        /\ \E r \in 1..Len(workspaces[id].sheet) :
              /\ waFormat(workspaces[id].sheet[r].phone) = deliveries[i].from
              /\ workspaces[id].sheet[r].status = "Confirmed"

\* every id of a committed order names a slot of the registry, and the order
\* is at least as long as the list of the open slots
OrderCoversOpen ==
    \A id \in DOMAIN workspaces :
        LET ws == workspaces[id]
        IN ws.lastBroadcastOrder # <<>> =>
               /\ \A k \in 1..Len(ws.lastBroadcastOrder) : SlotById(ws, ws.lastBroadcastOrder[k]) # 0
               /\ Len(ws.lastBroadcastOrder) >= Len(OpenSlots(ws))

\* a numeric reply that read a committed order shorter than its number
BeyondOrder(i) ==
    /\ deliveries[i].ws # 0
    /\ deliveries[i].order # <<>>
    /\ ~isMenuCommand(deliveries[i].text)
    /\ NumOf(deliveries[i]) > Len(deliveries[i].order)

LastBroadcast(k) ==
    /\ runs[k].kind = "broadcast"
    /\ runs[k].pc # "rejected"
    /\ runs[k].ws \in DOMAIN workspaces
    /\ epoch[runs[k].ws] = runs[k].epoch
    /\ \A j \in 1..Len(runs) :
          (j > k /\ runs[j].kind = "broadcast" /\ runs[j].ws = runs[k].ws) => runs[j].pc = "rejected"

\* C35: the listing a broadcast sends and the order it commits are one
\* snapshot: the line numbered i names the slot whose id is the i-th of the
\* order, for as long as the order stands, whatever bookings come between the
\* sends; and the listing of a run never changes.
C35_ListingIsOrder ==
    [][/\ \A k \in 1..Len(runs') :
             LastBroadcast(k)' =>
                 LET ws == workspaces'[runs'[k].ws]
                     listing == runs'[k].slotsText
                 IN /\ Len(listing) = Len(ws.lastBroadcastOrder)
                    /\ \A i \in 1..Len(listing) :
                          /\ listing[i].n = i
                          /\ SlotById(ws, ws.lastBroadcastOrder[i]) # 0
                          /\ listing[i].label
                                = ws.availabilitySlots[SlotById(ws, ws.lastBroadcastOrder[i])].label
       /\ \A k \in 1..Len(runs) : runs'[k].slotsText = runs[k].slotsText]_vars

\* a slot was booked before the broadcast, which listed the other slot as
\* number 1; while its sends were pending a reply 1 booked the slot listed
C35_Witness ==
    \E k \in 1..Len(runs) : \E i \in Deliveries :
        /\ LastBroadcast(k)
        /\ Len(runs[k].slotsText) = 1
        /\ \E t \in DOMAIN runs[k].task : runs[k].task[t] = "sent"
        /\ deliveries[i].ws = runs[k].ws
        /\ deliveries[i].order = workspaces[runs[k].ws].lastBroadcastOrder
        /\ deliveries[i].order # <<>>
        /\ NumOf(deliveries[i]) = 1
        /\ deliveries[i].outcome = "booked"
        /\ deliveries[i].slot = deliveries[i].order[1]

\* the addresses run k sends to
Recipients(k) == {runs[k].toSend[t].wa : t \in DOMAIN runs[k].toSend}

\* run j is a broadcast that is awaiting one of its sends
AwaitingSends(j) ==
    /\ runs[j].kind = "broadcast"
    /\ \E t \in DOMAIN runs[j].task : runs[j].task[t] = "sent"

\* C36: a non-forced broadcast request that arrives while an earlier
\* non-forced broadcast of the same workspace is awaiting its sends sends to
\* no contact the earlier one sends to.
C36_OverlapSendsOnce ==
    [][\A id \in Live :
          (BroadcastCommits(id) /\ ~runs'[Len(runs')].force) =>
              \A j \in 1..Len(runs) :
                  (AwaitingSends(j) /\ runs[j].ws = id /\ ~runs[j].force) =>
                      Recipients(j) \cap {runs'[Len(runs')].toSend[t].wa :
                                            t \in DOMAIN runs'[Len(runs')].toSend} = {}]_vars

\* the workspaces this step changes
Changed == {id \in Live : workspaces'[id] # workspaces[id]}

\* C37: every step changes the slots, order, directory, aggregates and rows of
\* one workspace at most: a reply and its handler those of the workspace the
\* reply was routed to, a set-availability, a broadcast, a follow-up and their
\* tasks those of the workspace of the request, an upload those of one workspace.
C37_Isolation ==
    [][/\ Cardinality(Changed) <= 1
       /\ Arrives => Changed \subseteq {deliveries'[Len(deliveries')].ws}
       /\ \A i \in Deliveries :
             deliveries'[i] # deliveries[i] => Changed \subseteq {deliveries[i].ws}
       /\ \A id \in Live : AvailabilitySet(id) => Changed \subseteq {id}
       /\ Len(runs') = Len(runs) + 1 => Changed \subseteq {runs'[Len(runs')].ws}
       /\ \A k \in 1..Len(runs) : runs'[k] # runs[k] => Changed \subseteq {runs[k].ws}]_vars

\* two workspaces list the same contact; the first has slots and a committed
\* order and none of its slots is booked; the contact's reply was handled by
\* the second and booked a slot there
C37_Witness ==
    \E i \in Deliveries :
        /\ {1, 2} \subseteq DOMAIN workspaces
        /\ deliveries[i].ws = 2
        /\ deliveries[i].outcome = "booked"
        /\ MapHas(workspaces[1].clientsByWa, deliveries[i].from)
        /\ MapHas(workspaces[2].clientsByWa, deliveries[i].from)
        /\ workspaces[1].lastBroadcastOrder # <<>>
        /\ BookedIds(workspaces[1]) = {}
        /\ BookedIds(workspaces[2]) # {}

====
